---------------------------- MODULE Spec2Model ----------------------------
(***************************************************************************)
(* A model of the fractal evolver's genome engine (src/src/lib) and of the *)
(* useEvolution3D hook that drives it.                                     *)
(*                                                                         *)
(* Several specifications share the variables below:                       *)
(*   SpecFitness  calculateFitness on bounded genomes, in IEEE-754 doubles *)
(*   SpecRng      the seeded generator against mulberry32                  *)
(*   SpecSeed     createInitialPopulation3D among other users of the       *)
(*                seeded generator                                         *)
(*   SpecOps      the breeding operators on bounded parents                *)
(*   SpecContractivity  enforceContractivity on matrices of doubles        *)
(*   SpecChaos    generateFractalPoints, the chaos game of ifs3d.ts        *)
(*   SpecBlend    blendCrossover on transforms with values                 *)
(*   SpecInputs   evolveGeneration3D on empty populations and odd sizes    *)
(*   SpecElites   evolveGeneration3D on rated populations                  *)
(*   SpecSelect   selectParent by tournament and by the wheel              *)
(*   SpecNormalize  generateFractalPoints up to the last finite point      *)
(*   SpecMutate   mutateTransform on transforms with values                *)
(*   SpecChildren  the genomes evolveGeneration3D makes, with matrices     *)
(*   SpecLoop     the breeding loop of evolveGeneration3D, turn by turn    *)
(*   Spec         the useEvolution3D hook: rate, evolve, reset, configure  *)
(* A specification leaves the variables it has no use for at their idle    *)
(* values.                                                                 *)
(***************************************************************************)
EXTENDS Integers, Sequences, FiniteSets, TLC

VARIABLES
    call,         \* the last call of a library function: its inputs and result
    genome3d,     \* genome3d.ts module state: idCounter and currentSeed
    evolution3d,  \* evolution3d.ts module state: idCounter
    clock,        \* Date.now(), in milliseconds since the page was loaded
    mathRandom,   \* the draws Math.random() is about to return
    state,        \* useEvolution3D: population, generation and seed
    hookConfig,   \* useEvolution3D: the evolution configuration
    objects,      \* the number of objects whose identity is followed
    fitnessTable, \* evolveGeneration3D: the fitness of every genome of its population
    selection     \* evolveGeneration3D: what selection reads of the fitnesses

vars == <<call, genome3d, evolution3d, clock, mathRandom, state, hookConfig, objects,
         fitnessTable, selection>>

moduleVars == <<genome3d, evolution3d, clock, mathRandom, objects>>
hookVars == <<state, hookConfig>>
evolveVars == <<fitnessTable, selection>>

IdleModules ==
    genome3d = <<>> /\ evolution3d = 0 /\ clock = 0 /\ mathRandom = <<>> /\ objects = 0
IdleHook == state = <<>> /\ hookConfig = <<>> /\ fitnessTable = <<>> /\ selection = <<>>

Max(a, b) == IF a >= b THEN a ELSE b
Min(a, b) == IF a <= b THEN a ELSE b

(***************************************************************************)
(* JavaScript numbers are IEEE-754 doubles.  A double is modelled exactly: *)
(* sign s, a 53-bit significand m and an exponent e, the value being       *)
(* s * m * 2^e.  The significand is a natural number held as a sequence of *)
(* limbs, least significant first, because it does not fit a machine word. *)
(***************************************************************************)
LimbBits == 14
LimbBase == 2^LimbBits
Precision == 53

RECURSIVE NatStrip(_)
NatStrip(a) ==
    IF a = <<>> THEN <<>>
    ELSE IF a[Len(a)] = 0 THEN NatStrip(SubSeq(a, 1, Len(a) - 1))
    ELSE a

RECURSIVE NatAddFrom(_, _, _, _)
NatAddFrom(a, b, i, carry) ==
    IF i > Len(a) /\ i > Len(b)
    THEN IF carry = 0 THEN <<>> ELSE <<carry>>
    ELSE LET x == (IF i <= Len(a) THEN a[i] ELSE 0)
                  + (IF i <= Len(b) THEN b[i] ELSE 0) + carry
         IN  <<x % LimbBase>> \o NatAddFrom(a, b, i + 1, x \div LimbBase)

NatAdd(a, b) == NatStrip(NatAddFrom(a, b, 1, 0))

\* a - b for a >= b
RECURSIVE NatSubFrom(_, _, _, _)
NatSubFrom(a, b, i, borrow) ==
    IF i > Len(a) THEN <<>>
    ELSE LET x == a[i] - (IF i <= Len(b) THEN b[i] ELSE 0) - borrow
         IN  IF x < 0
             THEN <<x + LimbBase>> \o NatSubFrom(a, b, i + 1, 1)
             ELSE <<x>> \o NatSubFrom(a, b, i + 1, 0)

NatSub(a, b) == NatStrip(NatSubFrom(a, b, 1, 0))

\* -1, 0, 1 as a < b, a = b, a > b (both stripped)
RECURSIVE NatCmpFrom(_, _, _)
NatCmpFrom(a, b, i) ==
    IF i = 0 THEN 0
    ELSE IF a[i] < b[i] THEN -1
    ELSE IF a[i] > b[i] THEN 1
    ELSE NatCmpFrom(a, b, i - 1)

NatCmp(a, b) ==
    IF Len(a) < Len(b) THEN -1
    ELSE IF Len(a) > Len(b) THEN 1
    ELSE NatCmpFrom(a, b, Len(a))

RECURSIVE NatMulLimbFrom(_, _, _, _)
NatMulLimbFrom(a, d, i, carry) ==
    IF i > Len(a)
    THEN IF carry = 0 THEN <<>> ELSE <<carry>>
    ELSE LET x == a[i] * d + carry
         IN  <<x % LimbBase>> \o NatMulLimbFrom(a, d, i + 1, x \div LimbBase)

NatShiftLimbs(a, k) == IF a = <<>> THEN <<>> ELSE [j \in 1..k |-> 0] \o a

\* sum + a * (the limbs lo..hi of b), the first half of the limbs, then the second
RECURSIVE NatMulFrom(_, _, _, _, _)
NatMulFrom(sum, a, b, lo, hi) ==
    IF lo > hi THEN sum
    ELSE IF lo = hi
    THEN NatAdd(sum, NatShiftLimbs(NatStrip(NatMulLimbFrom(a, b[lo], 1, 0)), lo - 1))
    ELSE LET left == NatMulFrom(sum, a, b, lo, (lo + hi) \div 2)
         IN  IF {left} # {} THEN NatMulFrom(left, a, b, (lo + hi) \div 2 + 1, hi)
             ELSE left

NatMul(a, b) == NatMulFrom(<<>>, a, b, 1, Len(b))

RECURSIVE NatFromInt(_)
NatFromInt(n) ==
    IF n = 0 THEN <<>> ELSE <<n % LimbBase>> \o NatFromInt(n \div LimbBase)

RECURSIVE IntBitLen(_)
IntBitLen(n) == IF n = 0 THEN 0 ELSE 1 + IntBitLen(n \div 2)

\* number of bits of a stripped natural
NatBitLen(a) ==
    IF a = <<>> THEN 0 ELSE (Len(a) - 1) * LimbBits + IntBitLen(a[Len(a)])

NatLimb(a, i) == IF i >= 1 /\ i <= Len(a) THEN a[i] ELSE 0

\* floor(a / 2^s)
NatShiftRight(a, s) ==
    LET q == s \div LimbBits
        r == s % LimbBits
        n == Len(a) - q
    IN  IF n <= 0 THEN <<>>
        ELSE NatStrip([i \in 1..n |->
                 (NatLimb(a, i + q) \div 2^r)
                 + (NatLimb(a, i + q + 1) % 2^r) * 2^(LimbBits - r)])

\* a * 2^s
NatShiftLeft(a, s) ==
    NatShiftLimbs(NatStrip(NatMulLimbFrom(a, 2^(s % LimbBits), 1, 0)), s \div LimbBits)

NatTestBit(a, k) == (NatLimb(a, (k \div LimbBits) + 1) \div 2^(k % LimbBits)) % 2 = 1

\* a mod 2^s = 0
NatLowBitsZero(a, s) ==
    /\ \A i \in 1..Min(Len(a), s \div LimbBits) : a[i] = 0
    /\ NatLimb(a, (s \div LimbBits) + 1) % 2^(s % LimbBits) = 0

\* floor(a / d) for a small divisor d, and whether the division is exact:
\* long division of the limbs hi down to lo, the upper half first, st being
\* the quotient's limbs so far and the remainder carried down
RECURSIVE NatDivSmallFrom(_, _, _, _, _)
NatDivSmallFrom(st, a, d, hi, lo) ==
    IF hi < lo THEN st
    ELSE IF hi = lo
    THEN [q   |-> <<(st.rem * LimbBase + a[hi]) \div d>> \o st.q,
          rem |-> (st.rem * LimbBase + a[hi]) % d]
    ELSE LET upper == NatDivSmallFrom(st, a, d, hi, (lo + hi) \div 2 + 1)
         IN  IF {upper} # {} THEN NatDivSmallFrom(upper, a, d, (lo + hi) \div 2, lo)
             ELSE upper

NatDivSmall(a, d) ==
    [NatDivSmallFrom([q |-> <<>>, rem |-> 0], a, d, Len(a), 1) EXCEPT !.q = NatStrip(@)]

fZero == [s |-> 1, m |-> <<>>, e |-> 0]

\* s * q * 2^e, the significand taken back to 53 bits if rounding up made
\* it a power of two
fRoundCarried(s, q, e) ==
    IF NatBitLen(q) > Precision
    THEN [s |-> s, m |-> NatShiftRight(q, 1), e |-> e + 1]
    ELSE [s |-> s, m |-> q, e |-> e]

\* the guard bit is set and a lower bit, the sticky one or the last bit kept
\* is set too: q = floor(n / 2^sh) is rounded up
fRoundsUp(n, q, sh, sticky) ==
    NatTestBit(n, sh - 1) /\ (sticky \/ ~NatLowBitsZero(n, sh - 1) \/ NatTestBit(q, 0))

\* n shortened by sh bits to q and rounded
fRoundShortened(s, n, q, e, sh, sticky) ==
    fRoundCarried(s, IF fRoundsUp(n, q, sh, sticky) THEN NatAdd(q, <<1>>) ELSE q, e + sh)

\* n of len bits brought to 53 bits
fRoundBits(s, n, e, sticky, len) ==
    IF len = 0 THEN fZero
    ELSE IF len <= Precision
    THEN [s |-> s, m |-> NatShiftLeft(n, Precision - len), e |-> e - (Precision - len)]
    ELSE fRoundShortened(s, n, NatShiftRight(n, len - Precision), e, len - Precision, sticky)

\* s * n * 2^e rounded to the nearest double, ties to even; sticky says
\* that the exact value lies strictly above n * 2^e (by less than 2^e)
fRoundSticky(s, n, e, sticky) == fRoundBits(s, n, e, sticky, NatBitLen(n))

fRound(s, n, e) == fRoundSticky(s, n, e, FALSE)

\* the double of an integer
fromInt(k) == fRound(IF k < 0 THEN -1 ELSE 1, NatFromInt(IF k < 0 THEN -k ELSE k), 0)

\* the double a decimal literal num/den denotes (den a power of ten)
fLiteral(num, den) ==
    LET d == NatDivSmall(NatShiftLeft(NatFromInt(num), Precision + IntBitLen(den)), den)
    IN  fRoundSticky(1, d.q, 0 - (Precision + IntBitLen(den)), d.rem # 0)

\* x * y
fMul(x, y) ==
    IF x.m = <<>> \/ y.m = <<>> THEN fZero
    ELSE fRound(x.s * y.s, NatMul(x.m, y.m), x.e + y.e)

\* the sum of the significands xm and ym at the exponent e, c comparing them
fAddCompared(x, y, xm, ym, e, c) ==
    IF x.s = y.s THEN fRound(x.s, NatAdd(xm, ym), e)
    ELSE IF c = 0 THEN fZero
    ELSE IF c > 0 THEN fRound(x.s, NatSub(xm, ym), e)
    ELSE fRound(y.s, NatSub(ym, xm), e)

fAddAligned(x, y, xm, ym, e) == fAddCompared(x, y, xm, ym, e, NatCmp(xm, ym))

\* both significands at the smaller exponent e
fAddAt(x, y, e) == fAddAligned(x, y, NatShiftLeft(x.m, x.e - e), NatShiftLeft(y.m, y.e - e), e)

\* x + y
fAdd(x, y) ==
    IF x.m = <<>> THEN y
    ELSE IF y.m = <<>> THEN x
    ELSE fAddAt(x, y, Min(x.e, y.e))

\* d < 0
fNegative(d) == d.m # <<>> /\ d.s = -1

\* x < y
fLess(x, y) == fNegative(fAdd(x, [y EXCEPT !.s = 0 - y.s]))


(***************************************************************************)
(* Genomes.  A transform is abstracted to the one quantity the fitness and *)
(* the scheduler read from its matrix: sr, the value spectralRadius(t.m)   *)
(* returns, in thousandths.  A genome is the record of types3d.ts with     *)
(* rating "unset" for an absent rating.  An id `fractal3d-<ms>-<n>` is the *)
(* pair <<ms, n>>.                                                         *)
(*                                                                         *)
(* Objects have identities: m and color name the matrix and the colour     *)
(* array of a transform, obj and array name a genome object and its        *)
(* transforms array.  Identities are positive numbers handed out in the    *)
(* order of creation; 0 stands for an object whose identity is not         *)
(* followed.                                                               *)
(***************************************************************************)
Ratings == {"up", "down", "unset"}

Transform(sr) == [sr |-> sr, m |-> 0, color |-> 0]

Genome(id, transforms, generation, parentIds, rating) ==
    [id |-> id, transforms |-> transforms, generation |-> generation,
     parentIds |-> parentIds, rating |-> rating, obj |-> 0, array |-> 0]

\* spectralRadius(t.m) as a double
spectralRadius(t) == fLiteral(t.sr, 1000)

\* transforms.reduce((sum, t) => sum + spectralRadius(t.m), sum) over lo..hi,
\* the first half, then the second half from where the first ended
RECURSIVE SumSpectralRadiusFrom(_, _, _, _)
SumSpectralRadiusFrom(sum, transforms, lo, hi) ==
    IF lo > hi THEN sum
    ELSE IF lo = hi THEN fAdd(sum, spectralRadius(transforms[lo]))
    ELSE LET left == SumSpectralRadiusFrom(sum, transforms, lo, (lo + hi) \div 2)
         IN  IF {left} # {}
             THEN SumSpectralRadiusFrom(left, transforms, (lo + hi) \div 2 + 1, hi)
             ELSE left

SumSpectralRadius(transforms, i) == SumSpectralRadiusFrom(fZero, transforms, 1, i)

\* x / n for a double x and a positive integer n
fDivInt(x, n) ==
    IF x.m = <<>> THEN fZero
    ELSE LET d == NatDivSmall(NatShiftLeft(x.m, IntBitLen(n) + 1), n)
         IN  fRoundSticky(x.s, d.q, x.e - (IntBitLen(n) + 1), d.rem # 0)

ratingFactorMutant(fitness, rating) ==
    IF rating = "up" THEN fMul(fitness, fLiteral(3, 1))
    ELSE IF rating = "down" THEN fMul(fitness, fLiteral(1, 1))
    ELSE fitness

\* if (rating === 'up') fitness *= 3.0; if (rating === 'down') fitness *= 0.1
ratingFactor(fitness, rating) ==
    IF rating = "up" THEN fMul(fitness, fLiteral(3, 1))
    ELSE IF rating = "down" THEN fMul(fitness, fLiteral(1, 10))
    ELSE fitness

\* avgContractivity < 0.7; with no transform the average is NaN and the test fails
contractivityBonus(fitness, transforms) ==
    IF Len(transforms) > 0
       /\ fLess(fDivInt(SumSpectralRadius(transforms, Len(transforms)), Len(transforms)),
                fLiteral(7, 10))
    THEN fMul(fitness, fLiteral(12, 10))
    ELSE fitness

\* fitness *= 1 + (length - 3) * 0.1
diversityFactor(fitness, transforms) ==
    fMul(fitness, fAdd(fromInt(1), fMul(fromInt(Len(transforms) - 3), fLiteral(1, 10))))

calculateFitness(genome) ==
    diversityFactor(
        contractivityBonus(ratingFactor(fromInt(1), genome.rating), genome.transforms),
        genome.transforms)


(***************************************************************************)
(* SpecFitness: calculateFitness applied to bounded genomes.               *)
(***************************************************************************)
MaxFitnessLen == 5
FitnessSrValues == {500, 900}

FitnessGenomes ==
    UNION {{Genome(<<generation, n>>, transforms, generation,
                   IF generation = 0 THEN <<>> ELSE <<<<0, 0>>>>, rating) :
              transforms \in [1..n -> {Transform(sr) : sr \in FitnessSrValues}],
              rating \in Ratings, generation \in {0, 4}} : n \in 1..MaxFitnessLen}

InitFitness ==
    /\ call \in {[op |-> "pending", genome |-> g] : g \in FitnessGenomes}
    /\ IdleModules /\ IdleHook

CallCalculateFitness ==
    /\ call.op = "pending"
    /\ call' = [op |-> "calculateFitness", genome |-> call.genome,
                result |-> calculateFitness(call.genome)]
    /\ UNCHANGED <<moduleVars, hookVars, evolveVars>>

NextFitness == CallCalculateFitness

SpecFitness == InitFitness /\ [][NextFitness]_vars

\* |x - y| is at most k units in the last place of the finer of the two
fWithinUlps(x, y, k) ==
    IF x.m = <<>> \/ y.m = <<>> THEN x = y
    ELSE LET e  == Min(x.e, y.e)
             xm == NatShiftLeft(x.m, x.e - e)
             ym == NatShiftLeft(y.m, y.e - e)
         IN  /\ x.s = y.s
             /\ NatCmp(IF NatCmp(xm, ym) >= 0 THEN NatSub(xm, ym) ELSE NatSub(ym, xm),
                       NatFromInt(k)) <= 0

\* the same genome without a rating, and without its lineage
Unrated(genome) == Genome(<<0, 0>>, genome.transforms, 0, <<>>, "unset")

\* C10 as stated: the fitness of a genome rated up is exactly 3 times, and of
\* one rated down exactly 0.1 times, the fitness of the same genome unrated.
C10_ExactRatio ==
    call.op = "calculateFitness" =>
        /\ call.genome.rating = "up" =>
              call.result = fMul(fromInt(3), calculateFitness(Unrated(call.genome)))
        /\ call.genome.rating = "down" =>
              call.result = fMul(fLiteral(1, 10), calculateFitness(Unrated(call.genome)))

\* C10 amended: the fitness depends on the rating and the transforms only, and
\* is 3 times (rated up) or 0.1 times (rated down) the unrated fitness up to the
\* rounding of the double multiplications: within 2 units in the last place.
C10_RatioUpToRounding ==
    call.op = "calculateFitness" =>
        /\ call.result = calculateFitness([Unrated(call.genome) EXCEPT !.rating = call.genome.rating])
        /\ call.genome.rating = "unset" =>
              call.result = calculateFitness(Unrated(call.genome))
        /\ call.genome.rating = "up" =>
              fWithinUlps(call.result,
                          fMul(fromInt(3), calculateFitness(Unrated(call.genome))), 2)
        /\ call.genome.rating = "down" =>
              fWithinUlps(call.result,
                          fMul(fLiteral(1, 10), calculateFitness(Unrated(call.genome))), 2)

\* a genome rated up whose fitness is not the rounded triple of its unrated fitness
C10_Witness ==
    /\ call.op = "calculateFitness"
    /\ call.genome.rating = "up"
    /\ call.genome.generation = 4
    /\ call.result # fMul(fromInt(3), calculateFitness(Unrated(call.genome)))


(***************************************************************************)
(* The seeded generator of genome3d.ts.  The bitwise operators of          *)
(* JavaScript work on 32-bit words, held here as two 16-bit halves.        *)
(***************************************************************************)
Word(hi, lo) == [hi |-> hi, lo |-> lo]

Bit(a, i) == (a \div 2^i) % 2

Xor4 ==
    [a \in 0..15 |-> [b \in 0..15 |->
        ((Bit(a, 0) + Bit(b, 0)) % 2) + 2 * ((Bit(a, 1) + Bit(b, 1)) % 2)
        + 4 * ((Bit(a, 2) + Bit(b, 2)) % 2) + 8 * ((Bit(a, 3) + Bit(b, 3)) % 2)]]

Or4 ==
    [a \in 0..15 |-> [b \in 0..15 |->
        Max(Bit(a, 0), Bit(b, 0)) + 2 * Max(Bit(a, 1), Bit(b, 1))
        + 4 * Max(Bit(a, 2), Bit(b, 2)) + 8 * Max(Bit(a, 3), Bit(b, 3))]]

Nibble(a, i) == (a \div 16^i) % 16

HalfOp(table, a, b) ==
    table[Nibble(a, 0)][Nibble(b, 0)] + 16 * table[Nibble(a, 1)][Nibble(b, 1)]
    + 256 * table[Nibble(a, 2)][Nibble(b, 2)] + 4096 * table[Nibble(a, 3)][Nibble(b, 3)]

\* x ^ y
BitXor(x, y) == Word(HalfOp(Xor4, x.hi, y.hi), HalfOp(Xor4, x.lo, y.lo))

\* x | y
BitOr(x, y) == Word(HalfOp(Or4, x.hi, y.hi), HalfOp(Or4, x.lo, y.lo))

\* x >>> k for 0 < k < 16
ShiftRightUnsigned(x, k) ==
    Word(x.hi \div 2^k, (x.lo \div 2^k) + (x.hi % 2^k) * 2^(16 - k))

\* (x + y) mod 2^32
Add32(x, y) ==
    LET lo == x.lo + y.lo
    IN  Word((x.hi + y.hi + lo \div 65536) % 65536, lo % 65536)

\* Math.imul(x, y): the low 32 bits of the product, byte by byte
Imul(x, y) ==
    LET a  == <<x.lo % 256, x.lo \div 256, x.hi % 256, x.hi \div 256>>
        b  == <<y.lo % 256, y.lo \div 256, y.hi % 256, y.hi \div 256>>
        c0 == a[1] * b[1]
        c1 == a[1] * b[2] + a[2] * b[1] + c0 \div 256
        c2 == a[1] * b[3] + a[2] * b[2] + a[3] * b[1] + c1 \div 256
        c3 == a[1] * b[4] + a[2] * b[3] + a[3] * b[2] + a[4] * b[1] + c2 \div 256
    IN  Word((c2 % 256) + 256 * (c3 % 256), (c0 % 256) + 256 * (c1 % 256))

(***************************************************************************)
(* currentSeed is a double that only ever holds a non-negative integer: it *)
(* is kept as top * 2^32 + hi * 2^16 + lo.  Integers below 2^53 are exact; *)
(* from 2^53 on a double keeps the 53 leading bits, rounding to nearest,   *)
(* ties to even.                                                           *)
(***************************************************************************)
Seed(top, hi, lo) == [top |-> top, hi |-> hi, lo |-> lo]

\* the double of a non-negative integer below 2^31
SeedFromInt(n) == Seed(0, n \div 65536, n % 65536)

\* carries propagated
SeedNormalize(top, hi, lo) ==
    LET h == hi + lo \div 65536
    IN  Seed(top + h \div 65536, h % 65536, lo % 65536)

\* the nearest double of the integer top * 2^32 + hi * 2^16 + lo
SeedRound(x) ==
    IF x.top < 2^(Precision - 32) THEN x
    ELSE LET k    == IntBitLen(x.top) - (Precision - 32)
             r    == x.lo % 2^k
             half == 2^(k - 1)
             odd  == (x.lo \div 2^k) % 2 = 1
             up   == r > half \/ (r = half /\ odd)
         IN  SeedNormalize(x.top, x.hi, x.lo - r + (IF up THEN 2^k ELSE 0))

\* x + 0x6D2B79F5 in double arithmetic (0x6D2B = 27947, 0x79F5 = 31221)
SeedAdvance(x) == SeedRound(SeedNormalize(x.top, x.hi + 27947, x.lo + 31221))

\* ToInt32(x), as an unsigned word
ToUint32(x) == Word(x.hi, x.lo)

\* t = Math.imul(t ^ t >>> 15, t | 1)
Scramble15(t) == Imul(BitXor(t, ShiftRightUnsigned(t, 15)), BitOr(t, Word(0, 1)))

\* t ^= t + Math.imul(t ^ t >>> 7, t | 61)
Scramble7(t) ==
    BitXor(t, Add32(t, Imul(BitXor(t, ShiftRightUnsigned(t, 7)), BitOr(t, Word(0, 61)))))

\* (t ^ t >>> 14) >>> 0
Scramble14(t) == BitXor(t, ShiftRightUnsigned(t, 14))

\* the draw made from the advanced currentSeed: the numerator of the draw, the
\* draw being value / 4294967296
DrawFrom(cs) ==
    [currentSeed |-> cs, value |-> Scramble14(Scramble7(Scramble15(ToUint32(cs))))]

\* seededRandom(): the new currentSeed and the draw
seededRandom(currentSeed) == DrawFrom(SeedAdvance(currentSeed))

\* setRandomSeed(seed)
setRandomSeed(seed) == SeedFromInt(seed)

(***************************************************************************)
(* genome3d.ts.  A transform is kept as the spectral radius of its matrix, *)
(* in thousandths, as spectralRadius computes it; the translation, the     *)
(* colour and the selection probability take no part in what follows.  The *)
(* seed constructors below list the transforms of the 35 seed fractals.    *)
(***************************************************************************)
\* `fractal3d-${Date.now()}-${idCounter++}`
generateId(now, idCounter) == <<now, idCounter>>

createTetrahedronLike == [i \in 1..4 |-> Transform(500)]
createSpiral3D == <<Transform(648), Transform(532)>>
createTree3D == <<Transform(349), Transform(533), Transform(533), Transform(533)>>
createBarnsleyFern3D == <<Transform(92), Transform(855), Transform(299), Transform(309)>>
createCantorDust3D == [i \in 1..8 |-> Transform(330)]
createOctahedron == [i \in 1..6 |-> Transform(500)]
createVicsek3D == [i \in 1..7 |-> Transform(330)]
createDoubleHelix == [i \in 1..2 |-> Transform(700)]
createFlameSwirl == <<Transform(608), Transform(523), Transform(387)>>
createCrystal == [i \in 1..6 |-> Transform(400)]
createDragon3D == [i \in 1..2 |-> Transform(707)]
createKoch3D == [i \in 1..4 |-> Transform(330)]
createMengerSponge == [i \in 1..20 |-> Transform(330)]
createGalaxySpiral == <<Transform(300), Transform(719), Transform(719)>>
createNestedCubes == <<Transform(450), Transform(180), Transform(180), Transform(180)>>
createApollonian3D == <<Transform(500), Transform(500), Transform(500), Transform(500), Transform(250)>>
createPalmFern == <<Transform(289), Transform(801), Transform(396), Transform(396), Transform(387)>>
createRomanesco == <<Transform(705), Transform(432), Transform(432)>>
createOakTree == <<Transform(235), Transform(600), Transform(512), Transform(512), Transform(432), Transform(432)>>
createPineTree == <<Transform(290), Transform(700), Transform(387), Transform(387), Transform(387), Transform(387)>>
createWeepingWillow == <<Transform(264), Transform(550), Transform(443), Transform(443), Transform(443), Transform(443)>>
createCoral == <<Transform(236), Transform(507), Transform(440), Transform(440), Transform(340)>>
createSeaweed == <<Transform(675), Transform(398), Transform(398)>>
createBush == <<Transform(500), Transform(466), Transform(466), Transform(466), Transform(466), Transform(417)>>
createIvy == <<Transform(651), Transform(386), Transform(386), Transform(307)>>
createGrass == <<Transform(422), Transform(418), Transform(418), Transform(416), Transform(416)>>
createFlower == <<Transform(291), Transform(250), Transform(365), Transform(365), Transform(365), Transform(365), Transform(376)>>
createMushroom == <<Transform(278), Transform(385), Transform(344), Transform(344), Transform(344), Transform(135)>>
createCactus == <<Transform(367), Transform(225), Transform(232), Transform(225), Transform(232)>>
createRoots == <<Transform(328), Transform(438), Transform(438), Transform(438), Transform(438)>>
createMoss == <<Transform(384), Transform(344), Transform(344), Transform(344), Transform(344), Transform(238)>>
createSucculent == <<Transform(384), Transform(417), Transform(417), Transform(417), Transform(417), Transform(326)>>
createBonsai == <<Transform(243), Transform(484), Transform(410), Transform(365), Transform(266), Transform(271)>>
createVineWithLeaves == <<Transform(702), Transform(328), Transform(328), Transform(229), Transform(229)>>
createFernFrond == <<Transform(405), Transform(367), Transform(367), Transform(337), Transform(337), Transform(283)>>

SEED_GENERATORS ==
    <<createTetrahedronLike, createSpiral3D, createTree3D,
      createBarnsleyFern3D, createCantorDust3D, createOctahedron,
      createVicsek3D, createDoubleHelix, createFlameSwirl, createCrystal,
      createDragon3D, createKoch3D, createMengerSponge,
      createGalaxySpiral, createNestedCubes, createApollonian3D,
      createPalmFern, createRomanesco, createOakTree, createPineTree,
      createWeepingWillow, createCoral, createSeaweed, createBush,
      createIvy, createGrass, createFlower, createMushroom, createCactus,
      createRoots, createMoss, createSucculent, createBonsai,
      createVineWithLeaves, createFernFrond>>

\* the module state of genome3d.ts: its idCounter and its currentSeed
GenomeModule(idCounter, currentSeed) == [idCounter |-> idCounter, currentSeed |-> currentSeed]

(***************************************************************************)
(* Loops run by halves: the first half, then the second half from where    *)
(* the first ended, which keeps the evaluation of a long loop shallow.     *)
(***************************************************************************)
\* n draws whose values only reach the parts of a transform that are not kept:
\* each leaves currentSeed as seededRandom does
RECURSIVE DiscardDraws(_, _)
DiscardDraws(currentSeed, n) ==
    IF n = 0 THEN currentSeed
    ELSE IF n = 1 THEN SeedAdvance(currentSeed)
    ELSE LET left == DiscardDraws(currentSeed, n \div 2)
         IN  IF {left} # {} THEN DiscardDraws(left, n - n \div 2) ELSE left

\* floor(1000 * randomRange(min, max)) of a draw, min and max in thousandths
randomRange(draw, min, max) ==
    min + ((max - min) * draw.hi + ((max - min) * draw.lo) \div 65536) \div 65536

\* the transform made from the scale draw, and the eleven draws after it
RandomTransformOf(scale) ==
    [transform   |-> Transform(randomRange(scale.value, 200, 600)),
     currentSeed |-> DiscardDraws(scale.currentSeed, 11)]

\* createRandomTransform3D(): twelve draws, the first being the scale
createRandomTransform3D(currentSeed) == RandomTransformOf(seededRandom(currentSeed))

\* transforms.push(t)
PushTransform(st, t) ==
    [transforms |-> Append(st.transforms, t.transform), currentSeed |-> t.currentSeed]

\* for (let i = 0; i < numTransforms; i++) transforms.push(createRandomTransform3D())
RECURSIVE PushRandomTransforms(_, _)
PushRandomTransforms(st, n) ==
    IF n = 0 THEN st
    ELSE IF n = 1 THEN PushTransform(st, createRandomTransform3D(st.currentSeed))
    ELSE LET left == PushRandomTransforms(st, n \div 2)
         IN  IF {left} # {} THEN PushRandomTransforms(left, n - n \div 2) ELSE left

\* the genome of the transforms built, with the next id
RandomGenomeOf(generation, now, g, built) ==
    [genome |-> Genome(generateId(now, g.idCounter), built.transforms,
                       generation, <<>>, "unset"),
     g      |-> GenomeModule(g.idCounter + 1, built.currentSeed)]

\* numTransforms = Math.floor(randomRange(3, 7)) transforms from the draw on
RandomTransformsOf(draw) ==
    PushRandomTransforms([transforms |-> <<>>, currentSeed |-> draw.currentSeed],
                         randomRange(draw.value, 3000, 7000) \div 1000)

\* createRandomGenome3D(generation)
createRandomGenome3D(generation, now, g) ==
    RandomGenomeOf(generation, now, g, RandomTransformsOf(seededRandom(g.currentSeed)))

(***************************************************************************)
(* [...SEED_GENERATORS].sort(() => seededRandom() - 0.5).  The engine's    *)
(* sort of an array of fewer than 64 elements (V8) finds the run the array *)
(* begins with, then inserts every later element by binary search; each    *)
(* comparison is one draw, negative when the draw is below one half.       *)
(***************************************************************************)
Negative(draw) == draw.hi < 32768

Reverse(a) == [i \in 1..Len(a) |-> a[Len(a) + 1 - i]]

\* the run grows unless the comparison goes against its direction
CountRunCompare(st, draw) ==
    [currentSeed |-> draw.currentSeed, descending |-> st.descending,
     done        |-> st.descending # Negative(draw.value),
     runLength   |-> IF st.descending # Negative(draw.value)
                     THEN st.runLength ELSE st.runLength + 1]

\* n steps of the run count: the run ends at the first comparison against it
RECURSIVE CountRun(_, _)
CountRun(st, n) ==
    IF n = 0 \/ st.done THEN st
    ELSE IF n = 1 THEN CountRunCompare(st, seededRandom(st.currentSeed))
    ELSE LET left == CountRun(st, n \div 2)
         IN  IF {left} # {} THEN CountRun(left, n - n \div 2) ELSE left

\* the run found, made ascending
MakeRun(a, run) ==
    [a |-> IF run.descending
           THEN Reverse(SubSeq(a, 1, run.runLength)) \o SubSeq(a, run.runLength + 1, Len(a))
           ELSE a,
     runLength |-> run.runLength, currentSeed |-> run.currentSeed]

\* the run that begins with the first comparison
RunFrom(first, n) ==
    CountRun([currentSeed |-> first.currentSeed, done |-> FALSE,
              descending |-> Negative(first.value), runLength |-> 2], n)

CountAndMakeRun(a, currentSeed) ==
    IF Len(a) < 2 THEN [a |-> a, runLength |-> Len(a), currentSeed |-> currentSeed]
    ELSE MakeRun(a, RunFrom(seededRandom(currentSeed), Len(a) - 2))

\* one halving of the binary search for the place of the pivot
BinarySearchCompare(st, draw) ==
    IF Negative(draw.value)
    THEN [left |-> st.left, right |-> st.left + (st.right - st.left) \div 2,
          currentSeed |-> draw.currentSeed]
    ELSE [left |-> st.left + (st.right - st.left) \div 2 + 1, right |-> st.right,
          currentSeed |-> draw.currentSeed]

\* while (left < right), at most n times
RECURSIVE BinarySearch(_, _)
BinarySearch(st, n) ==
    IF n = 0 \/ st.left >= st.right THEN st
    ELSE IF n = 1 THEN BinarySearchCompare(st, seededRandom(st.currentSeed))
    ELSE LET first == BinarySearch(st, n \div 2)
         IN  IF {first} # {} THEN BinarySearch(first, n - n \div 2) ELSE first

\* the element at position start (counted from 0) put at the place found
InsertAt(a, start, found) ==
    [a |-> SubSeq(a, 1, found.left) \o <<a[start + 1]>>
           \o SubSeq(a, found.left + 1, start) \o SubSeq(a, start + 2, Len(a)),
     currentSeed |-> found.currentSeed]

\* the elements at positions lo..hi inserted, each into the sorted ones before it
RECURSIVE BinaryInsertionSort(_, _, _)
BinaryInsertionSort(st, lo, hi) ==
    IF lo > hi THEN st
    ELSE IF lo = hi
    THEN InsertAt(st.a, lo,
                  BinarySearch([left |-> 0, right |-> lo, currentSeed |-> st.currentSeed],
                               IntBitLen(lo)))
    ELSE LET left == BinaryInsertionSort(st, lo, (lo + hi) \div 2)
         IN  IF {left} # {} THEN BinaryInsertionSort(left, (lo + hi) \div 2 + 1, hi)
             ELSE left

\* the sort carried on from the run
SortFrom(run, n) ==
    BinaryInsertionSort([a |-> run.a, currentSeed |-> run.currentSeed],
                        run.runLength, n - 1)

ArraySort(a, currentSeed) == SortFrom(CountAndMakeRun(a, currentSeed), Len(a))

\* for (let i = 0; i < seedCount; i++) population.push(shuffled[i]()), for the
\* seeds at lo..hi: a seed constructor takes the next id
RECURSIVE PushSeedGenomes(_, _, _)
PushSeedGenomes(st, lo, hi) ==
    IF lo > hi THEN st
    ELSE IF lo = hi
    THEN [st EXCEPT !.population =
                        Append(@, Genome(generateId(st.now, st.g.idCounter),
                                         SEED_GENERATORS[st.shuffled[lo]], 0, <<>>, "unset")),
                    !.g = GenomeModule(@.idCounter + 1, @.currentSeed)]
    ELSE LET left == PushSeedGenomes(st, lo, (lo + hi) \div 2)
         IN  IF {left} # {} THEN PushSeedGenomes(left, (lo + hi) \div 2 + 1, hi) ELSE left

\* population.push(genome)
PushGenome(st, r) == [st EXCEPT !.population = Append(@, r.genome), !.g = r.g]

\* n times population.push(createRandomGenome3D())
RECURSIVE PushRandomGenomes(_, _)
PushRandomGenomes(st, n) ==
    IF n <= 0 THEN st
    ELSE IF n = 1 THEN PushGenome(st, createRandomGenome3D(0, st.now, st.g))
    ELSE LET left == PushRandomGenomes(st, n \div 2)
         IN  IF {left} # {} THEN PushRandomGenomes(left, n - n \div 2) ELSE left

\* while (population.length < size) population.push(createRandomGenome3D())
Filled(st, size) == PushRandomGenomes(st, size - Len(st.population))

\* the population of the shuffled seed constructors and the random genomes;
\* shuffled, a sorted copy of SEED_GENERATORS, has its length
PopulationOf(size, now, g, shuffled) ==
    Filled(PushSeedGenomes([population |-> <<>>, now |-> now, shuffled |-> shuffled.a,
                            g |-> GenomeModule(g.idCounter, shuffled.currentSeed)],
                           1, Min((size * 3) \div 4, Len(shuffled.a))),
           size)

\* the population and the module state returned
Constructed(filled) == [population |-> filled.population, g |-> filled.g]

\* createInitialPopulation3D without its setRandomSeed(seed)
createInitialPopulation3DUnseeded(size, seed, now, g) ==
    Constructed(PopulationOf(size, now, g,
        ArraySort([i \in 1..Len(SEED_GENERATORS) |-> i], g.currentSeed)))

\* createInitialPopulation3D(size, seed): the population and the module state
createInitialPopulation3D(size, seed, now, g) ==
    Constructed(PopulationOf(size, now, g,
        ArraySort([i \in 1..Len(SEED_GENERATORS) |-> i], setRandomSeed(seed))))

(***************************************************************************)
(* SpecRng: setRandomSeed(seed), then draws of seededRandom.  currentSeed  *)
(* grows by 0x6D2B79F5 on every draw and stays an exact integer below      *)
(* 2^53, so the state after k draws is seed + k * 0x6D2B79F5 for as long   *)
(* as that is below 2^53; the behaviours start there for k = 0 and for     *)
(* k = RngFastForward, a little short of the 4917759 draws that reach 2^53.*)
(***************************************************************************)
RngSeeds == {0, 1, 42, 2147483646}
RngFastForward == 4917750
MaxDraws == 14

\* currentSeed after setRandomSeed(seed) and k draws, seed + k * 0x6D2B79F5 < 2^53
AfterDraws(seed, k) ==
    LET n   == NatAdd(NatFromInt(seed), NatMul(NatFromInt(k), NatFromInt(1831565813)))
        top == NatShiftRight(n, 32)
    IN  Seed(NatLimb(top, 1) + LimbBase * NatLimb(top, 2),
             (NatLimb(n, 2) \div 4) + (NatLimb(n, 3) % 16) * 4096,
             NatLimb(n, 1) + (NatLimb(n, 2) % 4) * 16384)

\* the reference: mulberry32 on a state s kept below 2^32
Mulberry32(s) ==
    LET s1 == Add32(s, Word(27947, 31221))
        t1 == Imul(BitXor(s1, ShiftRightUnsigned(s1, 15)), BitOr(s1, Word(0, 1)))
        t2 == BitXor(t1, Add32(t1, Imul(BitXor(t1, ShiftRightUnsigned(t1, 7)),
                                         BitOr(t1, Word(0, 61)))))
    IN  [s |-> s1, value |-> BitXor(t2, ShiftRightUnsigned(t2, 14))]

InitRng ==
    /\ call \in {[op |-> "setRandomSeed", seed |-> seed, start |-> k, draws |-> k,
                  currentSeed |-> AfterDraws(seed, k),
                  s |-> ToUint32(AfterDraws(seed, k))] :
                 seed \in RngSeeds, k \in {0, RngFastForward}}
    /\ IdleModules /\ IdleHook

CallSeededRandom ==
    /\ call.op \in {"setRandomSeed", "seededRandom"}
    /\ call.draws < call.start + MaxDraws
    /\ LET r   == seededRandom(call.currentSeed)
           ref == Mulberry32(call.s)
       IN  call' = [op |-> "seededRandom", seed |-> call.seed, start |-> call.start,
                    draws |-> call.draws + 1, currentSeed |-> r.currentSeed,
                    value |-> r.value, s |-> ref.s, reference |-> ref.value]
    /\ UNCHANGED <<moduleVars, hookVars, evolveVars>>

NextRng == CallSeededRandom

SpecRng == InitRng /\ [][NextRng]_vars

\* C9: every draw of the seeded generator is the matching output of mulberry32
\* on a state reduced mod 2^32, and lies in [0, 1).
C9_Mulberry32 ==
    call.op = "seededRandom" =>
        /\ call.value = call.reference
        /\ call.value.hi \in 0..65535 /\ call.value.lo \in 0..65535

(***************************************************************************)
(* SpecSeed: createInitialPopulation3D among the other users of the seeded *)
(* generator of genome3d.ts.  The module is loaded at some clock value,    *)
(* which is where currentSeed starts; then populations are constructed,    *)
(* random genomes are created (as evolveGeneration3D does for its random   *)
(* injection), the seed is set and single draws are made, in any order.    *)
(* call.first keeps the transforms of the first population constructed for *)
(* each size and seed.                                                     *)
(***************************************************************************)
SeedSizes == {4, 16}
SeedSeeds == {0, 42, 2147483646}
MaxSeedCalls == 3

\* let currentSeed = Date.now(), the clock counted from 1700000000000
LoadSeed(now) == Seed(395, 53221, 26624 + now)

TransformsOf(population) == [i \in 1..Len(population) |-> population[i].transforms]

InitSeed ==
    /\ clock \in {0, 1}
    /\ genome3d = GenomeModule(0, LoadSeed(clock))
    /\ call = [op |-> "load", calls |-> 0, first |-> <<>>]
    /\ evolution3d = 0 /\ mathRandom = <<>> /\ objects = 0 /\ IdleHook

CallCreateInitialPopulation3D ==
    /\ call.calls < MaxSeedCalls
    /\ \E size \in SeedSizes, seed \in SeedSeeds :
          LET r == createInitialPopulation3D(size, seed, clock, genome3d)
          IN  /\ genome3d' = r.g
              /\ call' = [op |-> "createInitialPopulation3D", calls |-> call.calls + 1,
                          size |-> size, seed |-> seed, population |-> r.population,
                          first |-> IF <<size, seed>> \in DOMAIN call.first
                                    THEN call.first
                                    ELSE (<<size, seed>> :> TransformsOf(r.population))
                                         @@ call.first]
    /\ UNCHANGED <<evolution3d, clock, mathRandom, objects, hookVars, evolveVars>>

CallCreateRandomGenome3D ==
    /\ call.calls < MaxSeedCalls
    /\ LET r == createRandomGenome3D(0, clock, genome3d)
       IN  /\ genome3d' = r.g
           /\ call' = [op |-> "createRandomGenome3D", calls |-> call.calls + 1,
                       genome |-> r.genome, first |-> call.first]
    /\ UNCHANGED <<evolution3d, clock, mathRandom, objects, hookVars, evolveVars>>

CallSetRandomSeed ==
    /\ call.calls < MaxSeedCalls
    /\ \E seed \in SeedSeeds :
          /\ genome3d' = GenomeModule(genome3d.idCounter, setRandomSeed(seed))
          /\ call' = [op |-> "setRandomSeed", calls |-> call.calls + 1,
                      seed |-> seed, first |-> call.first]
    /\ UNCHANGED <<evolution3d, clock, mathRandom, objects, hookVars, evolveVars>>

CallRandomRange ==
    /\ call.calls < MaxSeedCalls
    /\ LET draw == seededRandom(genome3d.currentSeed)
       IN  /\ genome3d' = GenomeModule(genome3d.idCounter, draw.currentSeed)
           /\ call' = [op |-> "randomRange", calls |-> call.calls + 1,
                       value |-> randomRange(draw.value, 0, 1000), first |-> call.first]
    /\ UNCHANGED <<evolution3d, clock, mathRandom, objects, hookVars, evolveVars>>

NextSeed ==
    \/ CallCreateInitialPopulation3D
    \/ CallCreateRandomGenome3D
    \/ CallSetRandomSeed
    \/ CallRandomRange

SpecSeed == InitSeed /\ [][NextSeed]_vars

\* C8: a population constructed for a size and a seed has the transforms of the
\* first population constructed for that size and seed, whatever ran in between.
C8_SameSeedSamePopulation ==
    call.op = "createInitialPopulation3D" =>
        TransformsOf(call.population) = call.first[<<call.size, call.seed>>]

\* a population of 16 constructed a second time for its seed, after a random
\* genome moved the generator on, whose ids differ from the first one's
C8_Witness ==
    /\ call.op = "createInitialPopulation3D"
    /\ call.calls = 3
    /\ call.size = 16
    /\ call.population[1].id[2] = 17
    /\ DOMAIN call.first = {<<16, call.seed>>}
    /\ Len(call.population) = 16
    /\ \E i \in 13..16 : Len(call.population[i].transforms) # Len(call.population[13].transforms)

(***************************************************************************)
(* Math.random() and the rest of what a call reads and changes outside its *)
(* arguments.  The draws of Math.random() are an input of the run: they    *)
(* are taken in turn from a stream, a sequence of hundredths that repeats. *)
(* An environment env carries the stream and the position reached in it,   *)
(* the clock and by how much it moves between two readings, the id counter *)
(* of evolution3d.ts, the module state g of genome3d.ts, the identity the  *)
(* next object created takes, the identities of the objects written in    *)
(* place, and the genomes made so far by the call under way.               *)
(***************************************************************************)
Env(stream, pos, now, tick, idCounter, g, heap) ==
    [stream |-> stream, pos |-> pos, now |-> now, tick |-> tick,
     idCounter |-> idCounter, g |-> g, heap |-> heap, written |-> {}, made |-> <<>>]

\* the k-th draw from here, in hundredths; k = 0 is the next draw
DrawAt(env, k) == env.stream[((env.pos - 1 + k) % Len(env.stream)) + 1]

\* n draws made
Skip(env, n) == [env EXCEPT !.pos = ((@ - 1 + n) % Len(env.stream)) + 1]

\* n objects created, with the identities env.heap .. env.heap + n - 1
Allocate(env, n) == [env EXCEPT !.heap = @ + n]

\* an object written in place
Write(env, object) == [env EXCEPT !.written = @ \cup {object}]

\* Math.random() * (max - min) + min for the draw d, min and max in thousandths
MathRandomRange(d, min, max) == min + ((max - min) * d) \div 100

\* Math.floor(Math.random() * n) for the draw d
MathRandomIndex(d, n) == (d * n) \div 100

\* one draw (Math.random() < threshold), and n more draws if it is
Optional(env, threshold, n) == Skip(env, IF DrawAt(env, 0) < threshold THEN 1 + n ELSE 1)

Clamp(x, lo, hi) == Max(lo, Min(hi, x))

\* Math.floor(Math.sqrt(n)), by bisection of lo..hi
RECURSIVE SqrtIn(_, _, _)
SqrtIn(n, lo, hi) ==
    IF lo >= hi THEN lo
    ELSE IF ((lo + hi + 1) \div 2) * ((lo + hi + 1) \div 2) <= n
         THEN SqrtIn(n, (lo + hi + 1) \div 2, hi)
         ELSE SqrtIn(n, lo, (lo + hi + 1) \div 2 - 1)

Sqrt(n) == SqrtIn(n, 0, 2048)

(***************************************************************************)
(* breeding.ts.  The operators act on the spectral radius of a matrix as   *)
(* they would on a rotation scaled by it: the three scales of the          *)
(* decomposition are the spectral radius, a rotation leaves it alone, and  *)
(* the shear, the translation, the probability and the colour only use up  *)
(* their draws.  Every array an operator creates takes a new identity.     *)
(***************************************************************************)
\* enforceContractivity(m, maxContractivity) on the matrix of t: the same array
\* if the spectral radius is within the bound, a new scaled one if not
enforceContractivity(t, maxContractivity, env) ==
    IF t.sr > maxContractivity
    THEN [t   |-> [t EXCEPT !.sr = maxContractivity, !.m = env.heap],
          env |-> Allocate(env, 1)]
    ELSE [t |-> t, env |-> env]

\* { ...source, m: [...source.m] }
CopyKeepingColor(source, ref) == [sr |-> source.sr, m |-> ref, color |-> source.color]

\* { ...source, m: [...source.m], color: [...source.color] }
Copy(source, ref) == [sr |-> source.sr, m |-> ref, color |-> ref + 1]

\* the array made of n new transforms after the given number of draws: the
\* array is env.heap and transform i has the arrays env.heap + 2i - 1 and + 2i
Created(transforms, env, draws) ==
    [transforms |-> transforms, array |-> env.heap,
     env |-> Allocate(Skip(env, draws), 1 + 2 * Len(transforms))]

\* useA && i < a.length ? a[i] : !useA && i < b.length ? b[i] :
\* i < a.length ? a[i] : b[i]
UniformSource(a, b, i, useA) ==
    IF useA /\ i <= Len(a) THEN a[i]
    ELSE IF ~useA /\ i <= Len(b) THEN b[i]
    ELSE IF i <= Len(a) THEN a[i] ELSE b[i]

uniformCrossover(a, b, env) ==
    Created([i \in 1..Max(Len(a), Len(b)) |->
                Copy(UniformSource(a, b, i, DrawAt(env, i - 1) < 50),
                     env.heap + 2 * i - 1)],
            env, Max(Len(a), Len(b)))

\* the transform at i of a blend with factor alpha, in hundredths
BlendAt(a, b, i, alpha, ref) ==
    IF i <= Len(a) /\ i <= Len(b)
    THEN [sr |-> (a[i].sr * alpha + b[i].sr * (100 - alpha)) \div 100,
          m |-> ref, color |-> ref + 1]
    ELSE Copy(IF i <= Len(a) THEN a[i] ELSE b[i], ref)

blendCrossover(a, b, env) ==
    Created([i \in 1..Max(Len(a), Len(b)) |->
                BlendAt(a, b, i, DrawAt(env, 0), env.heap + 2 * i - 1)],
            env, 1)

\* the transform at i when each parameter comes from either parent: nine
\* draws for the cells of the matrix, seven for the other parameters
ParameterAt(a, b, i, env, ref) ==
    IF i <= Len(a) /\ i <= Len(b)
    THEN [sr |-> Sqrt((Cardinality({j \in 0..8 : DrawAt(env, 16 * (i - 1) + j) < 50})
                          * a[i].sr * a[i].sr
                       + Cardinality({j \in 0..8 : DrawAt(env, 16 * (i - 1) + j) >= 50})
                          * b[i].sr * b[i].sr) \div 9),
          m |-> ref, color |-> ref + 1]
    ELSE Copy(IF i <= Len(a) THEN a[i] ELSE b[i], ref)

parameterCrossover(a, b, env) ==
    Created([i \in 1..Max(Len(a), Len(b)) |->
                ParameterAt(a, b, i, env, env.heap + 2 * i - 1)],
            env, 16 * Min(Len(a), Len(b)))

\* result.push(copy of source[i]) for the indices lo..hi, counted from 1
Taken(source, lo, hi) == [i \in 1..(hi - lo + 1) |-> source[lo + i - 1]]

\* the copies of the transforms taken, in the order they were pushed
Copies(taken, env) ==
    Created([i \in 1..Len(taken) |-> Copy(taken[i], env.heap + 2 * i - 1)], env, 1)

\* the crossover taking from parent B before the crossover point and from
\* parent A after it
SinglePointSwapped(a, b, crossPoint, env) ==
    Copies(Taken(b, 1, crossPoint) \o Taken(a, crossPoint + 1, Len(a)), env)

\* for (i = 0; i < crossPoint; i++) result.push(copy of a[i]);
\* for (i = crossPoint; i < b.length; i++) result.push(copy of b[i])
SinglePointAt(a, b, crossPoint, env) ==
    Copies(Taken(a, 1, crossPoint) \o Taken(b, crossPoint + 1, Len(b)), env)

singlePointCrossover(a, b, env) ==
    SinglePointAt(a, b, MathRandomIndex(DrawAt(env, 0), Min(Len(a), Len(b))), env)

\* crossover(a, b, type) of two genomes
crossover(a, b, type, env) ==
    CASE type = "uniform" -> uniformCrossover(a.transforms, b.transforms, env)
      [] type = "blend" -> blendCrossover(a.transforms, b.transforms, env)
      [] type = "parameter" -> parameterCrossover(a.transforms, b.transforms, env)
      [] type = "single-point" -> singlePointCrossover(a.transforms, b.transforms, env)
      [] OTHER -> blendCrossover(a.transforms, b.transforms, env)

Square(x) == x * x

\* scaleX, scaleY and scaleZ each moved by a draw of its own (the draws 1, 2
\* and 3 from here) and kept within [0.1, 0.85]: the spectral radius they give
MovedScales(sr, strength, env) ==
    Sqrt((Square(Clamp(sr + MathRandomRange(DrawAt(env, 1), 0 - strength, strength), 100, 850))
          + Square(Clamp(sr + MathRandomRange(DrawAt(env, 2), 0 - strength, strength), 100, 850))
          + Square(Clamp(sr + MathRandomRange(DrawAt(env, 3), 0 - strength, strength), 100, 850)))
         \div 3)

\* if (Math.random() < 0.4) the three scales move
MutateScales(st, strength) ==
    IF DrawAt(st.env, 0) < 40
    THEN [t   |-> [st.t EXCEPT !.sr = MovedScales(@, strength, st.env)],
          env |-> Skip(st.env, 4)]
    ELSE [t |-> st.t, env |-> Skip(st.env, 1)]

\* if (Math.random() < threshold) three angles or three shears move
MutateAngles(st, threshold) == [t |-> st.t, env |-> Optional(st.env, threshold, 3)]

\* m = reconstructMatrix(params); m = enforceContractivity(m, 0.85)
Reconstructed(st) ==
    enforceContractivity([st.t EXCEPT !.m = st.env.heap], 850, Allocate(st.env, 1))

\* a new colour array for the transform
NewColor(st) == [t |-> [st.t EXCEPT !.color = st.env.heap], env |-> Allocate(st.env, 1)]

\* tx, ty and tz (each moved if its draw is below 0.4), the probability (below
\* 0.3) and the colour (below 0.2, by three draws)
MutateOthers(st) ==
    NewColor([t   |-> st.t,
              env |-> Optional(Optional(Optional(Optional(Optional(
                          st.env, 40, 1), 40, 1), 40, 1), 30, 1), 20, 3)])

\* for (let i = 0; i < 9; i++) if (Math.random() < 0.5) m[i] += randomRange(...):
\* the sum of what the cells moved by
RECURSIVE MutateCells(_, _, _)
MutateCells(st, strength, n) ==
    IF n = 0 THEN st
    ELSE MutateCells(
             IF DrawAt(st.env, 0) < 50
             THEN [sum |-> st.sum + MathRandomRange(DrawAt(st.env, 1), 0 - strength, strength),
                   env |-> Skip(st.env, 2)]
             ELSE [sum |-> st.sum, env |-> Skip(st.env, 1)],
             strength, n - 1)

\* the copy of the matrix with its cells moved in place
MovedCells(t, copy, cells) ==
    [t   |-> [t EXCEPT !.sr = Max(0, @ + cells.sum \div 9), !.m = copy],
     env |-> Write(cells.env, copy)]

\* the matrix of st.t within the bound
Enforced(st) == enforceContractivity(st.t, 850, st.env)

randomMutation(t, strength, env) ==
    MutateOthers(Enforced(MovedCells(t, env.heap,
        MutateCells([sum |-> 0, env |-> Allocate(env, 1)], strength, 9))))

structuredMutation(t, strength, env) ==
    MutateOthers(Reconstructed(MutateAngles(MutateAngles(
        MutateScales([t |-> t, env |-> env], strength), 50), 30)))

rotationMutation(t, strength, env) ==
    NewColor(Reconstructed([t |-> t, env |-> Skip(env, 3)]))

\* one factor for the three scales, or a draw for each
ScaleMutated(t, strength, env) ==
    IF DrawAt(env, 0) < 50
    THEN [t   |-> [t EXCEPT !.sr =
                      Clamp((@ * (1000 + MathRandomRange(DrawAt(env, 1), 0 - strength,
                                                         strength))) \div 1000, 100, 850)],
          env |-> Skip(env, 2)]
    ELSE [t   |-> [t EXCEPT !.sr = MovedScales(@, strength, env)],
          env |-> Skip(env, 4)]

scaleMutation(t, strength, env) == NewColor(Reconstructed(ScaleMutated(t, strength, env)))

\* { ...t, m: [...t.m], ..., color: [...t.color] } after three draws
translationMutation(t, strength, env) ==
    [t |-> Copy(t, env.heap), env |-> Allocate(Skip(env, 3), 2)]

colorMutation(t, strength, env) ==
    [t |-> Copy(t, env.heap), env |-> Allocate(Skip(env, 3), 2)]

\* mutateTransform(t, type, strength): the transform and the environment after
mutateTransform(t, type, strength, env) ==
    CASE type = "random" -> randomMutation(t, strength, env)
      [] type = "structured" -> structuredMutation(t, strength, env)
      [] type = "rotation" -> rotationMutation(t, strength, env)
      [] type = "scale" -> scaleMutation(t, strength, env)
      [] type = "translation" -> translationMutation(t, strength, env)
      [] type = "color" -> colorMutation(t, strength * 400, env)
      [] OTHER -> structuredMutation(t, strength, env)

(***************************************************************************)
(* evolution3d.ts                                                          *)
(***************************************************************************)
defaultConfig ==
    [populationSize |-> 16, mutationRate |-> 80, mutationStrength |-> 120,
     mutationType |-> "structured", crossoverRate |-> 60, crossoverType |-> "blend",
     eliteCount |-> 2, randomInjection |-> 1, tournamentSize |-> 3,
     enforceContractivity |-> TRUE, allowStructuralMutation |-> TRUE,
     structuralMutationRate |-> 8]

evolutionPresets ==
    [conservative |-> [mutationRate |-> 50, mutationStrength |-> 80,
                       crossoverType |-> "blend", eliteCount |-> 4,
                       randomInjection |-> 0, structuralMutationRate |-> 2],
     exploratory  |-> [mutationRate |-> 95, mutationStrength |-> 200,
                       crossoverType |-> "parameter", eliteCount |-> 1,
                       randomInjection |-> 3, structuralMutationRate |-> 15],
     balanced     |-> defaultConfig,
     colorFocused |-> [mutationRate |-> 90, mutationType |-> "color",
                       mutationStrength |-> 300, crossoverType |-> "blend",
                       structuralMutationRate |-> 2],
     structural   |-> [mutationRate |-> 70, mutationType |-> "structured",
                       crossoverType |-> "single-point", structuralMutationRate |-> 20,
                       randomInjection |-> 2]]

\* { ...base, ...partial }
Spread(base, partial) ==
    [f \in DOMAIN base \cup DOMAIN partial |->
        IF f \in DOMAIN partial THEN partial[f] ELSE base[f]]

(***************************************************************************)
(* Selection reads fitnesses only to compare them and to spin the wheel.   *)
(* Both are worked out once for a population: rank says how many genomes   *)
(* are fitter, and wheel says, for every value the next draw can have,     *)
(* which genome fitnessProportionateSelect returns.                        *)
(***************************************************************************)
\* population.map(g => calculateFitness(g))
Fitnesses(population) == [i \in 1..Len(population) |-> calculateFitness(population[i])]

\* one more than the number of genomes of greater fitness
Ranks(fitnesses) ==
    [i \in 1..Len(fitnesses) |->
        1 + Cardinality({j \in 1..Len(fitnesses) : fLess(fitnesses[i], fitnesses[j])})]

\* fitnesses.reduce((a, b) => a + b, sum) over lo..hi
RECURSIVE SumFitness(_, _, _, _)
SumFitness(sum, fitnesses, lo, hi) ==
    IF lo > hi THEN sum
    ELSE IF lo = hi THEN fAdd(sum, fitnesses[lo])
    ELSE LET left == SumFitness(sum, fitnesses, lo, (lo + hi) \div 2)
         IN  IF {left} # {} THEN SumFitness(left, fitnesses, (lo + hi) \div 2 + 1, hi)
             ELSE left

\* r -= fitnesses[i]; if (r <= 0) return population[i]
RouletteAt(st, r, i) ==
    IF fLess(fZero, r) THEN [r |-> r, index |-> 0] ELSE [r |-> r, index |-> i]

\* for (let i = 0; i < population.length; i++) over lo..hi, nothing returned yet
\* while index is 0
RECURSIVE Roulette(_, _, _, _)
Roulette(st, fitnesses, lo, hi) ==
    IF lo > hi \/ st.index # 0 THEN st
    ELSE IF lo = hi
    THEN RouletteAt(st, fAdd(st.r, [fitnesses[lo] EXCEPT !.s = 0 - @]), lo)
    ELSE LET left == Roulette(st, fitnesses, lo, (lo + hi) \div 2)
         IN  IF {left} # {} THEN Roulette(left, fitnesses, (lo + hi) \div 2 + 1, hi)
             ELSE left

\* the loop's result, or population[population.length - 1]
RouletteResult(st, fitnesses) == IF st.index # 0 THEN st.index ELSE Len(fitnesses)

\* fitnessProportionateSelect for the draw d: r = Math.random() * total
Wheel(fitnesses, total, d) ==
    RouletteResult(Roulette([r |-> fMul(fLiteral(d, 100), total), index |-> 0],
                            fitnesses, 1, Len(fitnesses)),
                   fitnesses)

\* what selection reads of a population whose draws come from the stream
Selection(fitnesses, total, config, stream) ==
    [rank  |-> Ranks(fitnesses),
     wheel |-> IF config.tournamentSize > 1 THEN <<>>
               ELSE [k \in 1..Len(stream) |-> Wheel(fitnesses, total, stream[k])]]

\* fitnessProportionateSelect(population): the index selected
fitnessProportionateSelect(population, fit, env) ==
    [index |-> fit.wheel[env.pos], env |-> Skip(env, 1)]

\* the genome entered by draw k: Math.floor(Math.random() * population.length)
Entrant(population, env, k) == MathRandomIndex(DrawAt(env, k), Len(population)) + 1

\* tournament.reduce((best, current) => fitness(current) > fitness(best) ? ...)
RECURSIVE Fittest(_, _, _, _, _, _)
Fittest(population, fit, env, best, k, tournamentSize) ==
    IF k >= tournamentSize THEN best
    ELSE Fittest(population, fit, env,
                 IF fit.rank[Entrant(population, env, k)] < fit.rank[best]
                 THEN Entrant(population, env, k) ELSE best,
                 k + 1, tournamentSize)

\* tournamentSelect(population, tournamentSize): the index selected
tournamentSelect(population, fit, tournamentSize, env) ==
    [index |-> Fittest(population, fit, env, Entrant(population, env, 0),
                       1, tournamentSize),
     env   |-> Skip(env, tournamentSize)]

\* the selection with the tournament entered from tournamentSize 1 on
selectParentFromOne(population, fit, config, env) ==
    IF config.tournamentSize >= 1
    THEN tournamentSelect(population, fit, config.tournamentSize, env)
    ELSE fitnessProportionateSelect(population, fit, env)

\* selectParent(population, config): the index selected
selectParent(population, fit, config, env) ==
    IF config.tournamentSize > 1
    THEN tournamentSelect(population, fit, config.tournamentSize, env)
    ELSE fitnessProportionateSelect(population, fit, env)

\* generateId() of evolution3d.ts: the id it returns, and the environment after
CurrentId(env) == <<env.now, env.idCounter>>

NextId(env) == [env EXCEPT !.idCounter = @ + 1, !.now = @ + env.tick]

\* createRandomTransform(): eleven draws, the first being the scale
createRandomTransform(env) ==
    [t   |-> [sr |-> MathRandomRange(DrawAt(env, 0), 200, 600),
              m |-> env.heap, color |-> env.heap + 1],
     env |-> Allocate(Skip(env, 11), 2)]

\* a new, empty array of transforms
NewArray(env) == [transforms |-> <<>>, array |-> env.heap, env |-> Allocate(env, 1)]

\* the transform r.t pushed
Pushed(st, r) ==
    [transforms |-> Append(st.transforms, r.t), array |-> st.array, env |-> r.env]

\* genome.transforms.map(t => mutateTransform(t, type, strength)), lo..hi
RECURSIVE MutateTransforms(_, _, _, _, _)
MutateTransforms(st, source, config, lo, hi) ==
    IF lo > hi THEN st
    ELSE IF lo = hi
    THEN Pushed(st, mutateTransform(source[lo], config.mutationType,
                                    config.mutationStrength, st.env))
    ELSE LET left == MutateTransforms(st, source, config, lo, (lo + hi) \div 2)
         IN  IF {left} # {}
             THEN MutateTransforms(left, source, config, (lo + hi) \div 2 + 1, hi)
             ELSE left

\* transforms.map(t => ({ ...t, m: enforceContractivity(t.m, 0.85) })), lo..hi
RECURSIVE EnforceTransforms(_, _, _, _)
EnforceTransforms(st, source, lo, hi) ==
    IF lo > hi THEN st
    ELSE IF lo = hi THEN Pushed(st, enforceContractivity(source[lo], 850, st.env))
    ELSE LET left == EnforceTransforms(st, source, lo, (lo + hi) \div 2)
         IN  IF {left} # {} THEN EnforceTransforms(left, source, (lo + hi) \div 2 + 1, hi)
             ELSE left

\* if (config.enforceContractivity) transforms = transforms.map(...)
EnforcedAll(st, config) ==
    IF config.enforceContractivity
    THEN EnforceTransforms(NewArray(st.env), st.transforms, 1, Len(st.transforms))
    ELSE st

\* transforms.splice(idx, 1)
Spliced(st, idx) ==
    [transforms |-> SubSeq(st.transforms, 1, idx)
                    \o SubSeq(st.transforms, idx + 2, Len(st.transforms)),
     array |-> st.array, env |-> Write(Skip(st.env, 2), st.array)]

\* transforms.push(createRandomTransform())
PushedRandom(st, r) ==
    [transforms |-> Append(st.transforms, r.t), array |-> st.array,
     env |-> Write(r.env, st.array)]

\* the structural mutation with an append check of its own after the removal
StructurallyMutatedBoth(st, config) ==
    IF ~config.allowStructuralMutation THEN st
    ELSE IF DrawAt(st.env, 0) < config.structuralMutationRate /\ Len(st.transforms) > 2
    THEN IF DrawAt(st.env, 2) < config.structuralMutationRate /\ Len(st.transforms) - 1 < 8
         THEN PushedRandom(Spliced(st, MathRandomIndex(DrawAt(st.env, 1), Len(st.transforms))),
                           createRandomTransform(
                               Skip(Spliced(st, MathRandomIndex(DrawAt(st.env, 1),
                                                                Len(st.transforms))).env, 1)))
         ELSE Spliced([st EXCEPT !.env = Skip(@, 1)],
                      MathRandomIndex(DrawAt(st.env, 1), Len(st.transforms)))
    ELSE IF DrawAt(st.env, 1) < config.structuralMutationRate /\ Len(st.transforms) < 8
    THEN PushedRandom(st, createRandomTransform(Skip(st.env, 2)))
    ELSE [st EXCEPT !.env = Skip(@, 2)]

\* the structural mutation: a draw to remove a transform and, if none is
\* removed, a draw to add one
StructurallyMutated(st, config) ==
    IF ~config.allowStructuralMutation THEN st
    ELSE IF DrawAt(st.env, 0) < config.structuralMutationRate /\ Len(st.transforms) > 2
    THEN Spliced(st, MathRandomIndex(DrawAt(st.env, 1), Len(st.transforms)))
    ELSE IF DrawAt(st.env, 1) < config.structuralMutationRate /\ Len(st.transforms) < 8
    THEN PushedRandom(st, createRandomTransform(Skip(st.env, 2)))
    ELSE [st EXCEPT !.env = Skip(@, 2)]

\* a genome made: the environment with its id and its object taken
Made(genome, env) ==
    [genome |-> genome,
     env    |-> [NextId(Allocate(env, 1)) EXCEPT !.made = Append(@, genome)]]

\* return { id: generateId(), transforms, generation: genome.generation + 1,
\* parentIds: [genome.id] }
MutatedGenome(genome, st) ==
    Made([id |-> CurrentId(st.env), transforms |-> st.transforms,
          generation |-> genome.generation + 1, parentIds |-> <<genome.id>>,
          rating |-> "unset", obj |-> st.env.heap, array |-> st.array], st.env)

\* mutateGenome(genome, config): the new genome and the environment after
mutateGenome(genome, config, env) ==
    MutatedGenome(genome,
        StructurallyMutated(
            EnforcedAll(MutateTransforms(NewArray(env), genome.transforms, config,
                                         1, Len(genome.transforms)),
                        config),
            config))

\* Math.max(...population.map(g => g.generation))
MaxGeneration(population) ==
    CHOOSE m \in {population[i].generation : i \in 1..Len(population)} :
        \A i \in 1..Len(population) : population[i].generation <= m

\* the place the sort gives the genome at i: after every genome of greater
\* fitness and every earlier genome of the same fitness
Position(rank, i) == rank[i] + Cardinality({j \in 1..(i - 1) : rank[j] = rank[i]})

\* [...population].sort((a, b) => calculateFitness(b) - calculateFitness(a))
Sorted(population, rank) ==
    [k \in 1..Len(population) |->
        population[CHOOSE i \in 1..Len(population) : Position(rank, i) = k]]

\* { ...cfg, mutationStrength: cfg.mutationStrength * 0.3, structuralMutationRate: 0 }
EliteConfig(cfg) ==
    Spread(cfg, [mutationStrength |-> (cfg.mutationStrength * 3) \div 10,
                 structuralMutationRate |-> 0])

\* child.generation = generation; newPopulation.push(child), the child being
\* the genome mutateGenome has just returned
PushChild(st, r, generation) ==
    [newPopulation |-> Append(st.newPopulation, [r.genome EXCEPT !.generation = generation]),
     env           |-> Write(r.env, r.genome.obj)]

\* newPopulation.push(child), untouched
PushUnchanged(st, r) ==
    [newPopulation |-> Append(st.newPopulation, r.genome), env |-> r.env]

\* for (let i = 0; i < cfg.eliteCount && i < sorted.length; i++), from i on
RECURSIVE KeepElites(_, _, _, _, _)
KeepElites(st, sorted, cfg, generation, i) ==
    IF i > cfg.eliteCount \/ i > Len(sorted) THEN st
    ELSE KeepElites(IF sorted[i].rating = "up"
                    THEN PushChild(st, mutateGenome(sorted[i], EliteConfig(cfg), st.env),
                                   generation)
                    ELSE st,
                    sorted, cfg, generation, i + 1)

\* the genome createRandomGenome3D returned, with the identities of its objects
Located(genome, ref) ==
    [genome EXCEPT !.obj = ref, !.array = ref + 1,
                   !.transforms = [i \in 1..Len(genome.transforms) |->
                                      [sr |-> genome.transforms[i].sr,
                                       m |-> ref + 2 * i, color |-> ref + 2 * i + 1]]]

\* the environment after createRandomGenome3D returned r
AfterRandomGenome(env, r, genome) ==
    [env EXCEPT !.g = r.g, !.now = @ + env.tick,
                !.heap = @ + 2 + 2 * Len(r.genome.transforms),
                !.made = Append(@, genome)]

\* newPopulation.push(createRandomGenome3D(generation))
PushRandomGenome(st, r) ==
    [newPopulation |-> Append(st.newPopulation, Located(r.genome, st.env.heap)),
     env           |-> AfterRandomGenome(st.env, r, Located(r.genome, st.env.heap))]

InjectedUntagged(st, generation) ==
    PushRandomGenome(st, createRandomGenome3D(0, st.env.now, st.env.g))

\* one turn of the injection loop
Injected(st, generation) ==
    PushRandomGenome(st, createRandomGenome3D(generation, st.env.now, st.env.g))

\* for (let i = 0; i < cfg.randomInjection; i++), n more times
RECURSIVE Inject(_, _, _)
Inject(st, generation, n) ==
    IF n <= 0 THEN st
    ELSE Inject(Injected(st, generation), generation, n - 1)

\* let child = { id: generateId(), transforms: childTransforms, generation,
\* parentIds: [parent1.id, parent2.id] }
CrossoverChild(parent1, parent2, generation, st) ==
    Made([id |-> CurrentId(st.env), transforms |-> st.transforms,
          generation |-> generation, parentIds |-> <<parent1.id, parent2.id>>,
          rating |-> "unset", obj |-> st.env.heap, array |-> st.array], st.env)

\* if (Math.random() < cfg.mutationRate) { child = mutateGenome(child, cfg);
\* child.generation = generation }  newPopulation.push(child)
PushCrossoverChildUntagged(st, cfg, generation, child) ==
    IF DrawAt(child.env, 0) < cfg.mutationRate
    THEN PushUnchanged(st, mutateGenome(child.genome, cfg, Skip(child.env, 1)))
    ELSE PushUnchanged(st, [child EXCEPT !.env = Skip(@, 1)])

PushCrossoverChild(st, cfg, generation, child) ==
    IF DrawAt(child.env, 0) < cfg.mutationRate
    THEN PushChild(st, mutateGenome(child.genome, cfg, Skip(child.env, 1)), generation)
    ELSE PushUnchanged(st, [child EXCEPT !.env = Skip(@, 1)])

\* the crossover branch, parent2 selected
CrossWith(st, population, cfg, generation, parent1, p2) ==
    PushCrossoverChild(st, cfg, generation,
        CrossoverChild(parent1, population[p2.index], generation,
            EnforcedAll(crossover(parent1, population[p2.index], cfg.crossoverType, p2.env),
                        cfg)))

\* a turn whose mutation-only child is pushed twice
BreedWithTwice(st, population, fit, cfg, generation, p1) ==
    IF DrawAt(p1.env, 0) < cfg.crossoverRate
    THEN CrossWith(st, population, cfg, generation, population[p1.index],
                   selectParent(population, fit, cfg, Skip(p1.env, 1)))
    ELSE LET once == PushChild(st, mutateGenome(population[p1.index], cfg, Skip(p1.env, 1)),
                               generation)
         IN  [once EXCEPT !.newPopulation = Append(@, @[Len(@)])]

\* one turn of the while loop, parent1 selected
BreedWith(st, population, fit, cfg, generation, p1) ==
    IF DrawAt(p1.env, 0) < cfg.crossoverRate
    THEN CrossWith(st, population, cfg, generation, population[p1.index],
                   selectParent(population, fit, cfg, Skip(p1.env, 1)))
    ELSE PushChild(st, mutateGenome(population[p1.index], cfg, Skip(p1.env, 1)), generation)

\* while (newPopulation.length < cfg.populationSize): every turn adds one
\* genome, so n turns are left when n genomes are missing
RECURSIVE Breed(_, _, _, _, _, _)
Breed(st, population, fit, cfg, generation, n) ==
    IF n <= 0 THEN st
    ELSE IF n = 1
    THEN BreedWith(st, population, fit, cfg, generation,
                   selectParent(population, fit, cfg, st.env))
    ELSE LET left == Breed(st, population, fit, cfg, generation, n \div 2)
         IN  IF {left} # {}
             THEN Breed(left, population, fit, cfg, generation, n - n \div 2)
             ELSE left

\* the breeding loop begun with what the elites and the injection left
Bred(st, population, fit, cfg, generation) ==
    Breed(st, population, fit, cfg, generation,
          cfg.populationSize - Len(st.newPopulation))

\* the three loops of evolveGeneration3D
Loops(population, fit, cfg, generation, env) ==
    Bred(Inject(KeepElites([newPopulation |-> <<>>, env |-> env],
                           Sorted(population, fit.rank), cfg, generation, 1),
                generation, cfg.randomInjection),
         population, fit, cfg, generation)

\* what evolveGeneration3D(population, config) works out of the fitnesses
\* before its loops run: every fitness first, then what selection reads
Selecting(population, config, stream) ==
    /\ fitnessTable' = Fitnesses(population)
    /\ fitnessTable' # <<>>
    /\ selection' = Selection(fitnessTable', SumFitness(fZero, fitnessTable', 1, Len(fitnessTable')),
                              Spread(defaultConfig, config), stream)
    /\ selection'.rank # <<>>
    /\ selection'.wheel # <<0>>

\* evolveGeneration3D(population, config): the new population and the
\* environment after, fit being what Selecting has worked out
evolveGeneration3D(population, config, fit, env) ==
    Loops(population, fit, Spread(defaultConfig, config),
          MaxGeneration(population) + 1, env)

(***************************************************************************)
(* genome3d.ts: mutate3D and crossover3D.  Their conditions are draws of   *)
(* Math.random, their amounts draws of the seeded generator.               *)
(***************************************************************************)
\* the environment after the seeded draw, and randomRange(min, max) of it
Drawn(env, draw, min, max) ==
    [value |-> randomRange(draw.value, min, max),
     env   |-> [env EXCEPT !.g = GenomeModule(@.idCounter, draw.currentSeed)]]

SeededRange(env, min, max) == Drawn(env, seededRandom(env.g.currentSeed), min, max)

\* if (Math.random() < threshold) n values of randomRange are used
OptionalSeeded(env, threshold, n) ==
    IF DrawAt(env, 0) < threshold
    THEN [Skip(env, 1) EXCEPT !.g = GenomeModule(@.idCounter, DiscardDraws(@.currentSeed, n))]
    ELSE Skip(env, 1)

\* mutated.m[i] += randomRange(-strength, strength)
MovedCell3D(st, r) == [sum |-> st.sum + r.value, env |-> r.env]

\* if (Math.random() < 0.5) mutated.m[i] += randomRange(-strength, strength)
MutateCell3D(st, strength) ==
    IF DrawAt(st.env, 0) < 50
    THEN MovedCell3D(st, SeededRange(Skip(st.env, 1), 0 - strength, strength))
    ELSE [sum |-> st.sum, env |-> Skip(st.env, 1)]

\* for (let i = 0; i < 9; i++) ..., n cells being left
RECURSIVE MutateCells3D(_, _, _)
MutateCells3D(st, strength, n) ==
    IF n = 0 THEN st
    ELSE IF n = 1 THEN MutateCell3D(st, strength)
    ELSE LET left == MutateCells3D(st, strength, n \div 2)
         IN  IF {left} # {} THEN MutateCells3D(left, strength, n - n \div 2) ELSE left

\* if (Math.random() < 0.4) mutated.tx += ..., and so for ty and tz
TranslationMoved3D(st) ==
    [t   |-> st.t,
     env |-> OptionalSeeded(OptionalSeeded(OptionalSeeded(st.env, 40, 1), 40, 1), 40, 1)]

\* if (Math.random() < 0.2) mutated.color = [...]: a new array of three moved values
ColorMoved3D(st) ==
    IF DrawAt(st.env, 0) < 20
    THEN [t   |-> [st.t EXCEPT !.color = st.env.heap],
          env |-> Allocate(OptionalSeeded(st.env, 20, 3), 1)]
    ELSE [t |-> st.t, env |-> Skip(st.env, 1)]

\* if (Math.random() < 0.3) mutated.probability = ...
ProbabilityMoved3D(st) == [t |-> st.t, env |-> OptionalSeeded(st.env, 30, 1)]

MutateOthers3D(st) == ProbabilityMoved3D(ColorMoved3D(TranslationMoved3D(st)))

\* the transform genome.transforms.map returns for t
MutatedTransform3D(t, strength, env) ==
    MutateOthers3D(MovedCells(Copy(t, env.heap), env.heap,
                              MutateCells3D([sum |-> 0, env |-> Allocate(env, 2)],
                                            strength, 9)))

RECURSIVE MutateTransforms3D(_, _, _, _, _)
MutateTransforms3D(st, source, strength, lo, hi) ==
    IF lo > hi THEN st
    ELSE IF lo = hi THEN Pushed(st, MutatedTransform3D(source[lo], strength, st.env))
    ELSE LET left == MutateTransforms3D(st, source, strength, lo, (lo + hi) \div 2)
         IN  IF {left} # {}
             THEN MutateTransforms3D(left, source, strength, (lo + hi) \div 2 + 1, hi)
             ELSE left

\* transforms.push(createRandomTransform3D())
PushedRandom3D(st, r) ==
    [transforms |-> Append(st.transforms,
                           [sr |-> r.transform.sr, m |-> st.env.heap,
                            color |-> st.env.heap + 1]),
     array |-> st.array,
     env |-> Write([Allocate(st.env, 2) EXCEPT
                       !.g = GenomeModule(@.idCounter, r.currentSeed)],
                   st.array)]

\* if (Math.random() < 0.08 && length > 2) splice
\* else if (Math.random() < 0.08 && length < 8) push
StructurallyMutated3D(st) ==
    IF DrawAt(st.env, 0) < 8 /\ Len(st.transforms) > 2
    THEN Spliced(st, MathRandomIndex(DrawAt(st.env, 1), Len(st.transforms)))
    ELSE IF DrawAt(st.env, 1) < 8 /\ Len(st.transforms) < 8
    THEN PushedRandom3D([st EXCEPT !.env = Skip(@, 2)],
                        createRandomTransform3D(st.env.g.currentSeed))
    ELSE [st EXCEPT !.env = Skip(@, 2)]

\* a genome made by genome3d.ts: its id is generateId() of that module
Made3D(genome, env) ==
    [genome |-> genome,
     env    |-> [env EXCEPT !.g = GenomeModule(@.idCounter + 1, @.currentSeed),
                            !.now = @ + env.tick, !.heap = @ + 1,
                            !.made = Append(@, genome)]]

\* return { id: generateId(), transforms, generation: genome.generation + 1,
\* parentIds: [genome.id] }
Mutated3D(genome, st) ==
    Made3D([id |-> generateId(st.env.now, st.env.g.idCounter),
            transforms |-> st.transforms, generation |-> genome.generation + 1,
            parentIds |-> <<genome.id>>, rating |-> "unset",
            obj |-> st.env.heap, array |-> st.array], st.env)

\* mutate3D(genome, strength): the new genome and the environment after
mutate3D(genome, strength, env) ==
    Mutated3D(genome,
        StructurallyMutated3D(
            MutateTransforms3D(NewArray(env), genome.transforms, strength,
                               1, Len(genome.transforms))))

\* while (transforms.length < 2) transforms.push(createRandomTransform3D())
RECURSIVE PadTransforms3D(_)
PadTransforms3D(st) ==
    IF Len(st.transforms) >= 2 THEN st
    ELSE PadTransforms3D(PushedRandom3D(st, createRandomTransform3D(st.env.g.currentSeed)))

Crossed3DFirstParent(a, b, st) ==
    Made3D([id |-> generateId(st.env.now, st.env.g.idCounter),
            transforms |-> st.transforms, generation |-> a.generation + 1,
            parentIds |-> <<a.id, b.id>>, rating |-> "unset",
            obj |-> st.env.heap, array |-> st.array], st.env)

\* return { id: generateId(), transforms,
\* generation: Math.max(a.generation, b.generation) + 1, parentIds: [a.id, b.id] }
Crossed3D(a, b, st) ==
    Made3D([id |-> generateId(st.env.now, st.env.g.idCounter),
            transforms |-> st.transforms,
            generation |-> Max(a.generation, b.generation) + 1,
            parentIds |-> <<a.id, b.id>>, rating |-> "unset",
            obj |-> st.env.heap, array |-> st.array], st.env)

\* crossover3D(a, b): the selection of uniformCrossover, padded to two transforms
crossover3D(a, b, env) ==
    Crossed3D(a, b, PadTransforms3D(uniformCrossover(a.transforms, b.transforms, env)))

(***************************************************************************)
(* SpecOps: the breeding operators and evolveGeneration3D, each applied to *)
(* a bounded population under a bounded configuration.  The genomes of the *)
(* population own the objects below 1000; the calls create theirs from     *)
(* 1000 on.                                                                *)
(***************************************************************************)
MaxOpCalls == 1

OpLengths == <<3, 8, 2, 5>>
OpGenerations == <<0, 2, 1, 0>>
OpRatings == <<"unset", "up", "down", "up">>

OpGenome(k) ==
    [id |-> <<0, 100 + k>>,
     transforms |-> [j \in 1..OpLengths[k] |->
                        [sr |-> 200 + ((k * 370 + j * 230) % 700),
                         m |-> 100 * k + 2 * j + 1, color |-> 100 * k + 2 * j + 2]],
     generation |-> OpGenerations[k], parentIds |-> <<>>, rating |-> OpRatings[k],
     obj |-> 100 * k + 1, array |-> 100 * k + 2]

OpPopulations ==
    {<<OpGenome(1)>>, <<OpGenome(1), OpGenome(2)>>,
     <<OpGenome(3), OpGenome(2), OpGenome(4)>>}

OpSizes == 1..3

\* the presets at the sizes, and configurations for the options no preset sets
OpConfigs ==
    {Spread(evolutionPresets[p], [populationSize |-> n]) :
        p \in DOMAIN evolutionPresets, n \in OpSizes}
    \cup {[populationSize |-> 2, crossoverType |-> "uniform", mutationType |-> "random",
           tournamentSize |-> 1, enforceContractivity |-> FALSE],
          [populationSize |-> 3, mutationType |-> "rotation", crossoverRate |-> 100,
           mutationRate |-> 100, structuralMutationRate |-> 50],
          [populationSize |-> 2, mutationType |-> "scale", crossoverRate |-> 0,
           allowStructuralMutation |-> FALSE],
          [populationSize |-> 3, mutationType |-> "translation", mutationRate |-> 0,
           crossoverRate |-> 100, eliteCount |-> 0, randomInjection |-> 0]}

OpStreams ==
    {<<42, 5, 77, 18, 93, 3, 61, 35, 88, 50, 12>>,
     <<7, 66, 29, 99, 1, 45, 81, 23, 58, 0, 37, 72, 14>>}

InitOps ==
    /\ state \in {[population |-> population] : population \in OpPopulations}
    /\ hookConfig \in OpConfigs
    /\ mathRandom \in {[stream |-> stream, pos |-> 1] : stream \in OpStreams}
    /\ clock = 0
    /\ genome3d = GenomeModule(0, LoadSeed(0))
    /\ evolution3d = 0
    /\ objects = 1000
    /\ fitnessTable = <<>> /\ selection = <<>>
    /\ call = [op |-> "load", calls |-> 0]

\* the environment of a call: the clock moves by one with every id
OpEnv == Env(mathRandom.stream, mathRandom.pos, clock, 1, evolution3d, genome3d, objects)

OpConfig == Spread(defaultConfig, hookConfig)

\* the call recorded, and the module state it leaves
Returned(op, inputs, genomes, transforms, env) ==
    /\ call' = [op |-> op, calls |-> call.calls + 1, inputs |-> inputs,
                config |-> OpConfig, genomes |-> genomes, transforms |-> transforms,
                written |-> env.written, made |-> env.made]
    /\ mathRandom' = [mathRandom EXCEPT !.pos = env.pos]
    /\ clock' = env.now
    /\ evolution3d' = env.idCounter
    /\ genome3d' = env.g
    /\ objects' = env.heap
    /\ UNCHANGED hookVars

ReturnedTransforms(op, inputs, r) ==
    /\ Returned(op, inputs, <<>>, r.transforms, r.env)
    /\ UNCHANGED evolveVars

ReturnedTransform(op, inputs, r) ==
    /\ Returned(op, inputs, <<>>, <<r.t>>, r.env)
    /\ UNCHANGED evolveVars

ReturnedGenome(op, inputs, r) ==
    /\ Returned(op, inputs, <<r.genome>>, <<>>, r.env)
    /\ UNCHANGED evolveVars

ReturnedPopulation(op, inputs, r) == Returned(op, inputs, r.newPopulation, <<>>, r.env)

CallCrossover ==
    /\ call.calls < MaxOpCalls
    /\ \E i, j \in 1..Len(state.population) :
          ReturnedTransforms("crossover", <<state.population[i], state.population[j]>>,
              crossover(state.population[i], state.population[j],
                        OpConfig.crossoverType, OpEnv))

CallMutateTransform ==
    /\ call.calls < MaxOpCalls
    /\ \E i \in 1..Len(state.population) :
          \E j \in {1, Len(state.population[i].transforms)} :
              ReturnedTransform("mutateTransform", <<state.population[i]>>,
                  mutateTransform(state.population[i].transforms[j],
                                  OpConfig.mutationType, OpConfig.mutationStrength, OpEnv))

CallMutateGenome ==
    /\ call.calls < MaxOpCalls
    /\ \E i \in 1..Len(state.population) :
          ReturnedGenome("mutateGenome", <<state.population[i]>>,
                         mutateGenome(state.population[i], OpConfig, OpEnv))

CallMutate3D ==
    /\ call.calls < MaxOpCalls
    /\ \E i \in 1..Len(state.population) :
          ReturnedGenome("mutate3D", <<state.population[i]>>,
                         mutate3D(state.population[i], 120, OpEnv))

CallCrossover3D ==
    /\ call.calls < MaxOpCalls
    /\ \E i, j \in 1..Len(state.population) :
          ReturnedGenome("crossover3D", <<state.population[i], state.population[j]>>,
                         crossover3D(state.population[i], state.population[j], OpEnv))

CallEvolveGeneration3D ==
    /\ call.calls < MaxOpCalls
    /\ Selecting(state.population, hookConfig, mathRandom.stream)
    /\ ReturnedPopulation("evolveGeneration3D", state.population,
                          evolveGeneration3D(state.population, hookConfig, selection', OpEnv))

NextOps ==
    \/ CallCrossover
    \/ CallMutateTransform
    \/ CallMutateGenome
    \/ CallMutate3D
    \/ CallCrossover3D
    \/ CallEvolveGeneration3D

SpecOps == InitOps /\ [][NextOps]_vars

\* the transforms returned by the call: those of the genomes and those returned bare
OutputTransforms ==
    {call.transforms[j] : j \in 1..Len(call.transforms)}
    \cup UNION {{call.genomes[i].transforms[j] : j \in 1..Len(call.genomes[i].transforms)} :
                   i \in 1..Len(call.genomes)}

InputTransforms ==
    UNION {{call.inputs[i].transforms[j] : j \in 1..Len(call.inputs[i].transforms)} :
              i \in 1..Len(call.inputs)}

ArraysOf(transforms) == {t.m : t \in transforms} \cup {t.color : t \in transforms}

InputObjects ==
    ArraysOf(InputTransforms)
    \cup {call.inputs[i].obj : i \in 1..Len(call.inputs)}
    \cup {call.inputs[i].array : i \in 1..Len(call.inputs)}

InputIds == {call.inputs[i].id : i \in 1..Len(call.inputs)}

\* C3: evolveGeneration3D returns exactly populationSize genomes, for every
\* non-empty population and every configuration with populationSize > 0,
\* eliteCount >= 0 and randomInjection >= 0.
C3_ExactlyPopulationSize ==
    call.op = "evolveGeneration3D" => Len(call.genomes) = call.config.populationSize

\* C4: every genome evolveGeneration3D returns has the generation that is one
\* more than the greatest generation of the input population.
C4_NextGeneration ==
    call.op = "evolveGeneration3D" =>
        \A i \in 1..Len(call.genomes) :
            /\ \E j \in 1..Len(call.inputs) :
                  call.genomes[i].generation = call.inputs[j].generation + 1
            /\ \A j \in 1..Len(call.inputs) :
                  call.inputs[j].generation < call.genomes[i].generation

C4_Witness ==
    /\ call.op = "evolveGeneration3D"
    /\ Len(call.genomes) = 3
    /\ \E i, j \in 1..Len(call.inputs) :
          call.inputs[i].generation < call.inputs[j].generation
    /\ \E i \in 1..3 : call.genomes[i].parentIds = <<>>
    /\ \E i \in 1..3 : /\ Len(call.genomes[i].parentIds) = 1
                       /\ call.genomes[i].parentIds[1] \notin InputIds
    /\ call.genomes[1].generation = 3

\* C6: mutateGenome and mutate3D return a genome of the parent's generation
\* plus one whose parentIds are the parent's id alone; crossover3D returns a
\* genome of the greater of the two parents' generations plus one whose
\* parentIds are the ids of a and of b, in that order.
C6_Lineage ==
    /\ call.op \in {"mutateGenome", "mutate3D"} =>
          /\ call.genomes[1].generation = call.inputs[1].generation + 1
          /\ call.genomes[1].parentIds = <<call.inputs[1].id>>
    /\ call.op = "crossover3D" =>
          /\ call.genomes[1].generation > call.inputs[1].generation
          /\ call.genomes[1].generation > call.inputs[2].generation
          /\ call.genomes[1].generation - 1
                \in {call.inputs[1].generation, call.inputs[2].generation}
          /\ call.genomes[1].parentIds = <<call.inputs[1].id, call.inputs[2].id>>

C6_Witness ==
    /\ call.op = "crossover3D"
    /\ call.inputs[1].generation = 0
    /\ call.inputs[2].generation = 2
    /\ call.genomes[1].generation = 3
    /\ call.genomes[1].id # call.inputs[1].id

\* C7: no operator writes to an object of its inputs, and no matrix or colour
\* array of what it returns is a matrix or colour array of an input.
C7_InputsUntouched ==
    call.op # "load" =>
        /\ call.written \cap InputObjects = {}
        /\ ArraysOf(OutputTransforms) \cap ArraysOf(InputTransforms) = {}

C7_Witness ==
    /\ call.op = "evolveGeneration3D"
    /\ \E i \in 1..Len(call.genomes) : call.genomes[i].obj \in call.written
    /\ \E i \in 1..Len(call.genomes) :
          /\ Len(call.genomes[i].parentIds) = 2
          /\ \E u \in InputTransforms : /\ call.genomes[i].transforms[1].sr = u.sr
                                        /\ call.genomes[i].transforms[1].m # u.m

(***************************************************************************)
(* Spec: the useEvolution3D hook.  Its state is created from a seed, and   *)
(* its handlers rate a genome, take a comment, advance a generation, start *)
(* again and change the configuration.                                     *)
(***************************************************************************)
POPULATION_SIZE == 16

MaxCalls == 2

HookSeeds == {3, 42}

ClickPositions == {1, 3, 13}

HookConfigs == {[crossoverType |-> "single-point", mutationRate |-> 100],
                [eliteCount |-> 0, randomInjection |-> 0, tournamentSize |-> 1]}

\* the genomes of a new population with the identities of their objects, fifty
\* to a genome
RECURSIVE LocatedFrom(_, _, _)
LocatedFrom(population, ref, i) ==
    IF i > Len(population) THEN <<>>
    ELSE <<Located(population[i], ref)>> \o LocatedFrom(population, ref + 50, i + 1)

\* { population: createInitialPopulation3D(POPULATION_SIZE, seed), generation: 0,
\* comment: '', seed }
Started(seed, r, calls) ==
    /\ state' = [population |-> LocatedFrom(r.population, objects + 1, 1),
                 generation |-> 0, comment |-> "", seed |-> seed]
    /\ genome3d' = r.g
    /\ objects' = objects + 50 * Len(r.population)
    /\ call' = [op |-> "createInitialPopulation3D", calls |-> calls, inputs |-> <<>>,
                made |-> <<>>, handler |-> "reset"]

\* useState(() => ...) with nothing saved, the page just loaded
Init ==
    /\ clock \in {0, 1}
    /\ evolution3d = 0
    /\ mathRandom \in {[stream |-> stream, pos |-> 2] : stream \in OpStreams}
    /\ hookConfig = defaultConfig
    /\ \E seed \in HookSeeds :
          LET r == createInitialPopulation3D(POPULATION_SIZE, seed, clock,
                                             GenomeModule(0, LoadSeed(clock)))
          IN  /\ state = [population |-> LocatedFrom(r.population, 1, 1),
                          generation |-> 0, comment |-> "", seed |-> seed]
              /\ genome3d = r.g
              /\ objects = 50 * Len(r.population)
    /\ fitnessTable = <<>> /\ selection = <<>>
    /\ call = [op |-> "createInitialPopulation3D", calls |-> 0, inputs |-> <<>>,
               made |-> <<>>, handler |-> "useState"]

\* prev.population.map(g => g.id === id ? { ...g, rating: newRating } : g)
Rated(population, id, newRating) ==
    [i \in 1..Len(population) |->
        IF population[i].id = id
        THEN [population[i] EXCEPT !.rating = newRating, !.obj = objects + i]
        ELSE population[i]]

\* genome?.rating === rating ? undefined : rating, of the first genome of the id
Toggled(population, id, rating) ==
    IF population[CHOOSE i \in 1..Len(population) :
                      /\ population[i].id = id
                      /\ \A j \in 1..(i - 1) : population[j].id # id].rating = rating
    THEN "unset" ELSE rating

\* the handler that ran, the calls of the library before it standing as they
\* were
Handled(handler) == call' = [call EXCEPT !.calls = @ + 1, !.handler = handler]

\* a genome of the population clicked: the handler that ran and the place of
\* the genome
Clicked(handler, i) ==
    call' = [op |-> call.op, calls |-> call.calls + 1, inputs |-> call.inputs,
             made |-> call.made, handler |-> handler, clicked |-> i]

\* select(id), id being that of a genome shown
select ==
    /\ call.calls < MaxCalls
    /\ \E i \in ClickPositions :
          /\ state' = [state EXCEPT !.population =
                          Rated(@, @[i].id, Toggled(@, @[i].id, "up"))]
          /\ Clicked("select", i)
    /\ objects' = objects + Len(state.population)
    /\ UNCHANGED <<genome3d, evolution3d, clock, mathRandom, hookConfig, evolveVars>>

\* reject(id), id being that of a genome shown
reject ==
    /\ call.calls < MaxCalls
    /\ \E i \in ClickPositions :
          /\ state' = [state EXCEPT !.population =
                          Rated(@, @[i].id, Toggled(@, @[i].id, "down"))]
          /\ Clicked("reject", i)
    /\ objects' = objects + Len(state.population)
    /\ UNCHANGED <<genome3d, evolution3d, clock, mathRandom, hookConfig, evolveVars>>

Comments == {"", "spirals"}

\* setComment(comment): setState(prev => ({ ...prev, comment }))
setComment ==
    /\ call.calls < MaxCalls
    /\ \E comment \in Comments : state' = [state EXCEPT !.comment = comment]
    /\ Handled("setComment")
    /\ UNCHANGED <<genome3d, evolution3d, clock, mathRandom, hookConfig, objects, evolveVars>>

\* the state evolve would set if it kept the generation and the comment
EvolvedStateUncounted(r) ==
    /\ state' = [population |-> r.newPopulation, generation |-> state.generation,
                 comment |-> state.comment, seed |-> state.seed]
    /\ call' = [op |-> "evolveGeneration3D", calls |-> call.calls + 1,
                inputs |-> state.population, made |-> r.env.made, handler |-> "evolve"]
    /\ mathRandom' = [mathRandom EXCEPT !.pos = r.env.pos]
    /\ clock' = r.env.now
    /\ evolution3d' = r.env.idCounter
    /\ genome3d' = r.env.g
    /\ objects' = r.env.heap

\* the state evolve sets, r being what evolveGeneration3D returned
EvolvedState(r) ==
    /\ state' = [population |-> r.newPopulation, generation |-> state.generation + 1,
                 comment |-> "", seed |-> state.seed]
    /\ call' = [op |-> "evolveGeneration3D", calls |-> call.calls + 1,
                inputs |-> state.population, made |-> r.env.made, handler |-> "evolve"]
    /\ mathRandom' = [mathRandom EXCEPT !.pos = r.env.pos]
    /\ clock' = r.env.now
    /\ evolution3d' = r.env.idCounter
    /\ genome3d' = r.env.g
    /\ objects' = r.env.heap

\* evolveGeneration3D(prev.population, { ...config, populationSize: POPULATION_SIZE }),
\* the clock standing still or moving by one with every id
evolve ==
    /\ call.calls < MaxCalls
    /\ Selecting(state.population, hookConfig, mathRandom.stream)
    /\ \E tick \in {0, 1} :
          EvolvedState(evolveGeneration3D(
              state.population,
              Spread(hookConfig, [populationSize |-> POPULATION_SIZE]),
              selection',
              Env(mathRandom.stream, mathRandom.pos, clock, tick, evolution3d,
                  genome3d, objects)))
    /\ UNCHANGED hookConfig

\* reset(newSeed): a seed given, or the one generateRandomSeed() draws
reset ==
    /\ call.calls < MaxCalls
    /\ \E seed \in HookSeeds, given \in BOOLEAN :
          /\ Started(seed, createInitialPopulation3D(POPULATION_SIZE, seed, clock, genome3d),
                     call.calls + 1)
          /\ mathRandom' = IF given THEN mathRandom
                           ELSE [mathRandom EXCEPT
                                    !.pos = (@ % Len(mathRandom.stream)) + 1]
    /\ UNCHANGED <<evolution3d, clock, hookConfig, evolveVars>>

\* setConfigState(prev => ({ ...prev, ...newConfig }))
setConfig ==
    /\ call.calls < MaxCalls
    /\ \E newConfig \in HookConfigs : hookConfig' = Spread(hookConfig, newConfig)
    /\ Handled("setConfig")
    /\ UNCHANGED <<genome3d, evolution3d, clock, mathRandom, state, objects, evolveVars>>

\* setConfigState({ ...defaultConfig, ...preset })
applyPreset ==
    /\ call.calls < MaxCalls
    /\ \E presetName \in DOMAIN evolutionPresets :
          hookConfig' = Spread(defaultConfig, evolutionPresets[presetName])
    /\ Handled("applyPreset")
    /\ UNCHANGED <<genome3d, evolution3d, clock, mathRandom, state, objects, evolveVars>>

Next ==
    \/ select
    \/ reject
    \/ setComment
    \/ evolve
    \/ reset
    \/ setConfig
    \/ applyPreset

Spec == Init /\ [][Next]_vars

\* the genomes of the population and the genomes the last call made
PopulationGenomes == {state.population[i] : i \in 1..Len(state.population)}

MadeGenomes == {call.made[i] : i \in 1..Len(call.made)}

InputGenomes == {call.inputs[i] : i \in 1..Len(call.inputs)}

\* C1: every genome a crossover or a mutation produced, the bred and the elite
\* genomes of every population included, has between 2 and 8 transforms
C1_TransformCount ==
    \A genome \in PopulationGenomes \cup MadeGenomes :
        genome.parentIds # <<>> => Len(genome.transforms) \in 2..8

\* C2: no two genomes of a population have the same id, whatever the clock
C2_UniqueIds ==
    \A i, j \in 1..Len(state.population) :
        i # j => state.population[i].id # state.population[j].id

\* the generations of the parents of a genome, among the genomes the step
\* started from and the genomes it made
ParentGenerations(genome) ==
    {parent.generation : parent \in {g \in InputGenomes \cup MadeGenomes :
                                        \E k \in 1..Len(genome.parentIds) :
                                            g.id = genome.parentIds[k]}}

\* C5 as stated: a genome with no parents has generation 0, a genome with
\* parents the greatest generation of its parents plus 1
C5_GenerationFromParents ==
    \A genome \in PopulationGenomes :
        IF genome.parentIds = <<>> THEN genome.generation = 0
        ELSE \A generation \in ParentGenerations(genome) :
                 /\ generation < genome.generation
                 /\ genome.generation - 1 \in ParentGenerations(genome)

\* C5: a genome with no parents has generation 0 when createInitialPopulation3D
\* made it and the generation of the step when evolveGeneration3D injected
\* it; a genome with parents has the generation of the step that returned
\* it, the greatest generation of the population the step started from plus
\* 1, which is the greatest generation of its parents plus 1 when its
\* parents are genomes of that population
C5_GenerationOfStep ==
    \A genome \in PopulationGenomes :
        /\ genome.generation = IF call.op = "createInitialPopulation3D" THEN 0
                               ELSE MaxGeneration(call.inputs) + 1
        /\ call.op = "createInitialPopulation3D" => genome.parentIds = <<>>
        /\ \A k \in 1..Len(genome.parentIds) :
               \A parent \in InputGenomes :
                   parent.id = genome.parentIds[k] =>
                       genome.generation = parent.generation + 1

\* an evolve step has returned an injected genome, a mutated crossover child
\* and a child whose two parents are genomes of the population it started from
C5_Witness ==
    /\ call.op = "evolveGeneration3D"
    /\ \E genome \in PopulationGenomes : genome.parentIds = <<>> /\ genome.generation > 0
    /\ \E genome \in PopulationGenomes :
           /\ Len(genome.parentIds) = 1
           /\ \E made \in MadeGenomes :
                  made.id = genome.parentIds[1] /\ Len(made.parentIds) = 2
    /\ \E genome \in PopulationGenomes :
           /\ Len(genome.parentIds) = 2
           /\ \A k \in 1..2 : \E parent \in InputGenomes : parent.id = genome.parentIds[k]

(***************************************************************************)
(* SpecContractivity: spectralRadius and enforceContractivity on matrices  *)
(* of nine doubles, in IEEE-754 arithmetic.  An array is a record of its   *)
(* identity ref and its values v; the array a call is given has identity 1.*)
(***************************************************************************)
\* floor(a / d) and a mod d for naturals a and d > 0, bit by bit from bit hi
\* of a down to bit lo, the upper half first
RECURSIVE NatDivFrom(_, _, _, _, _)
NatDivFrom(st, a, d, hi, lo) ==
    IF hi < lo THEN st
    ELSE IF hi = lo
    THEN LET rem == NatAdd(NatShiftLeft(st.rem, 1), IF NatTestBit(a, hi) THEN <<1>> ELSE <<>>)
         IN  IF NatCmp(rem, d) >= 0
             THEN [q |-> NatAdd(NatShiftLeft(st.q, 1), <<1>>), rem |-> NatSub(rem, d)]
             ELSE [q |-> NatShiftLeft(st.q, 1), rem |-> rem]
    ELSE LET upper == NatDivFrom(st, a, d, hi, (lo + hi) \div 2 + 1)
         IN  IF {upper} # {} THEN NatDivFrom(upper, a, d, (lo + hi) \div 2, lo)
             ELSE upper

NatDiv(a, d) == NatDivFrom([q |-> <<>>, rem |-> <<>>], a, d, NatBitLen(a) - 1, 0)

\* floor(sqrt(n)): the bits hi down to lo of the root, the upper half first
RECURSIVE NatSqrtFrom(_, _, _, _)
NatSqrtFrom(root, n, hi, lo) ==
    IF hi < lo THEN root
    ELSE IF hi = lo
    THEN LET next == NatAdd(root, NatShiftLeft(<<1>>, hi))
         IN  IF NatCmp(NatMul(next, next), n) <= 0 THEN next ELSE root
    ELSE LET upper == NatSqrtFrom(root, n, hi, (lo + hi) \div 2 + 1)
         IN  IF {upper} # {} THEN NatSqrtFrom(upper, n, (lo + hi) \div 2, lo)
             ELSE upper

NatSqrt(n) == NatSqrtFrom(<<>>, n, NatBitLen(n) \div 2, 0)

\* x / y for y # 0
fDiv(x, y) ==
    IF x.m = <<>> THEN fZero
    ELSE LET d == NatDiv(NatShiftLeft(x.m, Precision + 2), y.m)
         IN  fRoundSticky(x.s * y.s, d.q, x.e - y.e - (Precision + 2), d.rem # <<>>)

\* Math.sqrt(x) for x >= 0
fSqrt(x) ==
    IF x.m = <<>> THEN fZero
    ELSE LET k    == Precision + 2 + ((x.e - Precision) % 2)
             n    == NatShiftLeft(x.m, k)
             root == NatSqrt(n)
         IN  fRoundSticky(1, root, (x.e - k) \div 2, NatMul(root, root) # n)

\* a literal with a sign, in tenths
fTenths(k) == IF k < 0 THEN [fLiteral(0 - k, 10) EXCEPT !.s = -1] ELSE fLiteral(k, 10)

\* for (let i = 0; i < 9; i++) sum += m[i] * m[i], over the entries lo..hi
RECURSIVE SumSquaresFrom(_, _, _, _)
SumSquaresFrom(sum, v, lo, hi) ==
    IF lo > hi THEN sum
    ELSE IF lo = hi THEN fAdd(sum, fMul(v[lo], v[lo]))
    ELSE LET left == SumSquaresFrom(sum, v, lo, (lo + hi) \div 2)
         IN  IF {left} # {} THEN SumSquaresFrom(left, v, (lo + hi) \div 2 + 1, hi)
             ELSE left

\* spectralRadius(m) of breeding.ts on the values of a matrix
spectralRadiusMatrix(v) == fSqrt(fDivInt(SumSquaresFrom(fZero, v, 1, 9), 3))

\* const scale = maxContractivity / sr, the operands exchanged
ScaleInverted(maxContractivity, sr) == fDiv(sr, maxContractivity)

\* const scale = maxContractivity / sr
Scale(maxContractivity, sr) == fDiv(maxContractivity, sr)

\* m.map(v => v * scale), a new array
Scaled(v, scale, ref) == [ref |-> ref, v |-> [i \in 1..9 |-> fMul(v[i], scale)]]

\* enforceContractivity(m, maxContractivity) of breeding.ts; ref is the
\* identity an array made by the call takes
enforceContractivityMatrix(m, maxContractivity, ref) ==
    LET sr == spectralRadiusMatrix(m.v)
    IN  IF fLess(maxContractivity, sr)
        THEN Scaled(m.v, Scale(maxContractivity, sr), ref)
        ELSE m

MaxContractivity == fLiteral(85, 100)

\* the entries a matrix is drawn from, in tenths
MatrixEntries == {0, 5, 9, 13, -7}

\* [a, b, 0, 0, c, 0, 0, b, a]
Matrices ==
    {[ref |-> 1, v |-> <<fTenths(a), fTenths(b), fZero, fZero, fTenths(c), fZero,
                         fZero, fTenths(b), fTenths(a)>>] :
        a \in MatrixEntries, b \in MatrixEntries, c \in MatrixEntries}

InitContractivity ==
    /\ call \in {[op |-> "pending", m |-> m] : m \in Matrices}
    /\ IdleModules /\ IdleHook

\* result = enforceContractivity(m)
CallEnforceContractivity ==
    /\ call.op = "pending"
    /\ call' = [op |-> "enforceContractivity", m |-> call.m,
                result |-> enforceContractivityMatrix(call.m, MaxContractivity, 2)]
    /\ UNCHANGED <<moduleVars, hookVars, evolveVars>>

\* again = enforceContractivity(result)
CallEnforceContractivityAgain ==
    /\ call.op = "enforceContractivity"
    /\ call' = [op |-> "enforceContractivityAgain", m |-> call.m, result |-> call.result,
                again |-> enforceContractivityMatrix(call.result, MaxContractivity, 3)]
    /\ UNCHANGED <<moduleVars, hookVars, evolveVars>>

NextContractivity == CallEnforceContractivity \/ CallEnforceContractivityAgain

SpecContractivity == InitContractivity /\ [][NextContractivity]_vars


\* the matrix m scaled as enforceContractivity scales a matrix of approximation sr
ScaledValues(v, sr) == [i \in 1..9 |-> fMul(v[i], fDiv(MaxContractivity, sr))]

\* C11 as stated: a matrix whose approximation r exceeds 0.85 is returned
\* scaled by 0.85 / r with an approximation of exactly 0.85, any other matrix
\* is returned unchanged, and a second application changes nothing
C11_ExactAndIdempotent ==
    call.op = "enforceContractivityAgain" =>
        /\ IF fLess(MaxContractivity, spectralRadiusMatrix(call.m.v))
           THEN /\ call.result.v = ScaledValues(call.m.v, spectralRadiusMatrix(call.m.v))
                /\ spectralRadiusMatrix(call.result.v) = MaxContractivity
           ELSE call.result = call.m
        /\ call.again.v = call.result.v

\* C11: a matrix whose approximation r exceeds 0.85 is returned as a new
\* array scaled by the double 0.85 / r, and its approximation is then within
\* 16 units in the last place of 0.85, on either side; any other matrix is
\* returned as it is, the same array; a second application returns its
\* argument when the approximation is at most 0.85 and rescales it to within
\* the same tolerance when not
C11_WithinTolerance ==
    /\ call.op \in {"enforceContractivity", "enforceContractivityAgain"} =>
           IF fLess(MaxContractivity, spectralRadiusMatrix(call.m.v))
           THEN /\ call.result.ref # call.m.ref
                /\ call.result.v = ScaledValues(call.m.v, spectralRadiusMatrix(call.m.v))
                /\ fWithinUlps(spectralRadiusMatrix(call.result.v), MaxContractivity, 16)
           ELSE call.result = call.m
    /\ call.op = "enforceContractivityAgain" =>
           IF fLess(MaxContractivity, spectralRadiusMatrix(call.result.v))
           THEN /\ call.again.ref # call.result.ref
                /\ fWithinUlps(spectralRadiusMatrix(call.again.v), MaxContractivity, 16)
           ELSE call.again = call.result

\* a matrix was scaled to an approximation just above 0.85, and the second
\* application scaled it again to other values
C11_Witness ==
    /\ call.op = "enforceContractivityAgain"
    /\ call.result.ref # call.m.ref
    /\ fLess(MaxContractivity, spectralRadiusMatrix(call.result.v))
    /\ call.again.v # call.result.v

(***************************************************************************)
(* SpecChaos: generateFractalPoints of ifs3d.ts, one loop iteration a      *)
(* step.  A coordinate is a double or NonFinite, which stands for          *)
(* Infinity, -Infinity and NaN alike: the code only asks isFinite.  The    *)
(* points emitted are counted, and the typed arrays of the result are      *)
(* known by their lengths.  No value of the runs is small enough to be     *)
(* subnormal.                                                              *)
(***************************************************************************)
NonFinite == [s |-> 0, m |-> <<>>, e |-> 0]

\* a double whose magnitude is 2^1024 or more has overflowed
Overflowed(x) == IF x.m = <<>> \/ x.e + Precision <= 1024 THEN x ELSE NonFinite

\* x * y and x + y with overflow; an operand that is not finite gives a
\* result that is not finite
jsMul(x, y) == IF x = NonFinite \/ y = NonFinite THEN NonFinite ELSE Overflowed(fMul(x, y))
jsAdd(x, y) == IF x = NonFinite \/ y = NonFinite THEN NonFinite ELSE Overflowed(fAdd(x, y))

fNeg(x) == [x EXCEPT !.s = 0 - x.s]

\* 2^k
fPow2(k) == [fromInt(1) EXCEPT !.e = @ + k]

\* an AffineTransform3D: the matrix m, and the translation, the probability
\* and the three colour channels in tenths
AffineTransform3D(m, tx, ty, tz, probability, color) ==
    [m |-> m, tx |-> fTenths(tx), ty |-> fTenths(ty), tz |-> fTenths(tz),
     probability |-> fTenths(probability), color |-> [j \in 1..3 |-> fTenths(color[j])]]

\* transforms.reduce((sum, t) => sum + t.probability, 0), from the i-th on
RECURSIVE TotalProb(_, _, _)
TotalProb(sum, transforms, i) ==
    IF i > Len(transforms) THEN sum
    ELSE TotalProb(jsAdd(sum, transforms[i].probability), transforms, i + 1)

\* for (i...) { r -= transforms[i].probability; if (r <= 0) return i }
\* return transforms.length - 1; indices count from 1 here
RECURSIVE SelectFrom(_, _, _)
SelectFrom(r, transforms, i) ==
    IF i > Len(transforms) THEN Len(transforms)
    ELSE LET left == jsAdd(r, fNeg(transforms[i].probability))
         IN  IF left # NonFinite /\ (left.m = <<>> \/ left.s = -1) THEN i
             ELSE SelectFrom(left, transforms, i + 1)

\* selectTransform(transforms) for the draw d of Math.random(), in hundredths
selectTransform(transforms, d) ==
    SelectFrom(jsMul(fLiteral(d, 100), TotalProb(fZero, transforms, 1)), transforms, 1)

\* m0 * x + m1 * y + m2 * z + t
Row(m0, m1, m2, x, y, z, t) ==
    jsAdd(jsAdd(jsAdd(jsMul(m0, x), jsMul(m1, y)), jsMul(m2, z)), t)

applyTransform3D(x, y, z, t) ==
    [x |-> Row(t.m[1], t.m[2], t.m[3], x, y, z, t.tx),
     y |-> Row(t.m[4], t.m[5], t.m[6], x, y, z, t.ty),
     z |-> Row(t.m[7], t.m[8], t.m[9], x, y, z, t.tz)]

\* Math.random() * 2 - 1 for the draw d
StartCoordinate(d) == fAdd(fMul(fLiteral(d, 100), fromInt(2)), fromInt(-1))

\* the next draw of Math.random(), and the generator after n draws
Draw(k) == mathRandom.stream[((mathRandom.pos - 1 + k) % Len(mathRandom.stream)) + 1]
Drew(n) == [mathRandom EXCEPT !.pos = ((@ - 1 + n) % Len(mathRandom.stream)) + 1]

\* { positions: new Float32Array(n * 3), colors: new Float32Array(n * 3), count: n }
PointSet(n) == [positions |-> n * 3, colors |-> n * 3, count |-> n]

\* iterations = 50000 stands at MaxIterations, skipIterations at its default
MaxIterations == 2200
skipIterations == 20

ChaosOptions ==
    {options \in [iterations : {0, skipIterations, MaxIterations},
                  skipIterations : {0, skipIterations}] :
        options.iterations < MaxIterations \/ options.skipIterations = skipIterations}

Diagonal(a) == <<fTenths(a), fZero, fZero, fZero, fTenths(a), fZero, fZero, fZero, fTenths(a)>>
Stretch(a) == <<fTenths(a), fZero, fZero, fZero, fZero, fZero, fZero, fZero, fZero>>
Huge == [i \in 1..9 |-> IF i <= 3 THEN fPow2(1023) ELSE fZero]

\* the matrix of every transform passed through enforceContractivity
EnforcedTransforms(transforms) ==
    [i \in 1..Len(transforms) |->
        [transforms[i] EXCEPT
            !.m = enforceContractivityMatrix([ref |-> 1, v |-> @], MaxContractivity, 2).v]]

\* the genomes of the runs: none of a transform; one stretching x by 1.4,
\* which enforceContractivity leaves alone; one stretching x by 5, which it
\* scales down; two halving maps; and a genome not passed through
\* enforceContractivity whose every image of a point near (1, 1, 1) overflows
ChaosGenomes ==
    {[enforced |-> TRUE, transforms |-> EnforcedTransforms(transforms)] :
        transforms \in {<<>>,
                        <<AffineTransform3D(Stretch(14), 5, 0, 0, 10, <<2550, 0, 0>>)>>,
                        <<AffineTransform3D(Stretch(50), 5, 0, 0, 10, <<2550, 0, 0>>)>>,
                        <<AffineTransform3D(Diagonal(5), 5, 0, 0, 5, <<2550, 0, 0>>),
                          AffineTransform3D(Diagonal(5), -5, 5, 0, 10, <<0, 2550, 0>>)>>}}
    \cup {[enforced |-> FALSE, transforms |-> <<AffineTransform3D(Huge, 0, 0, 0, 10, <<2550, 0, 0>>)>>]}

ChaosStreams == {<<99, 99, 99, 50>>, <<20, 71, 64, 3, 87>>}

InitChaos ==
    /\ call \in {[op |-> "pending", genome |-> genome, options |-> options] :
                    genome \in ChaosGenomes, options \in ChaosOptions}
    /\ mathRandom \in {[stream |-> stream, pos |-> 1] : stream \in ChaosStreams}
    /\ genome3d = <<>> /\ evolution3d = 0 /\ clock = 0 /\ objects = 0
    /\ IdleHook

\* generateFractalPoints(genome, options) up to its loop
CallGenerateFractalPoints ==
    /\ call.op = "pending"
    /\ IF Len(call.genome.transforms) = 0
       THEN /\ call' = [op |-> "generateFractalPoints", pc |-> "returned",
                        genome |-> call.genome, options |-> call.options,
                        i |-> 0, x |-> fZero, y |-> fZero, z |-> fZero,
                        points |-> 0, diverged |-> 0, late |-> 0, tIdx |-> 0,
                        color |-> <<>>, kept |-> <<>>, positions |-> <<>>,
                        result |-> PointSet(0)]
            /\ UNCHANGED mathRandom
       ELSE /\ call' = [op |-> "generateFractalPoints", pc |-> "loop",
                        genome |-> call.genome, options |-> call.options,
                        i |-> 0, x |-> StartCoordinate(Draw(0)),
                        y |-> StartCoordinate(Draw(1)), z |-> StartCoordinate(Draw(2)),
                        points |-> 0, diverged |-> 0, late |-> 0, tIdx |-> 0,
                        color |-> <<>>, kept |-> <<>>, positions |-> <<>>,
                        result |-> <<>>]
            /\ mathRandom' = Drew(3)
    /\ UNCHANGED <<genome3d, evolution3d, clock, objects, hookVars, evolveVars>>

\* the runs whose points are kept one by one: those that emit MaxKept at most
MaxKept == 3
Keeps(options) == options.iterations - options.skipIterations <= MaxKept

\* the value a Float32Array element takes when x is stored: x rounded to 24
\* bits, ties to even, to a multiple of 2^-149 below 2^-126, to an infinity
\* from 2^128 on
Float32(x) ==
    IF x = NonFinite \/ x.m = <<>> THEN x
    ELSE LET sh    == Max(Precision - 24, -149 - x.e)
             q     == NatShiftRight(x.m, sh)
             guard == NatTestBit(x.m, sh - 1)
             low   == ~NatLowBitsZero(x.m, sh - 1)
             q2    == IF guard /\ (low \/ NatTestBit(q, 0)) THEN NatAdd(q, <<1>>) ELSE q
             r     == fRound(x.s, q2, x.e + sh)
         IN  IF r.m # <<>> /\ r.e + Precision > 128 THEN NonFinite ELSE r

\* Math.min and Math.max of two finite doubles
MathMin(x, y) == IF fLess(y, x) THEN y ELSE x
MathMax(x, y) == IF fLess(x, y) THEN y ELSE x

\* minX = Math.min(minX, x) and maxX = Math.max(maxX, x) over the points
\* pushed, from Infinity and -Infinity: the bounds of the axis
RECURSIVE AxisMin(_, _, _)
AxisMin(kept, axis, n) ==
    IF n = 1 THEN kept[1][axis] ELSE MathMin(AxisMin(kept, axis, n - 1), kept[n][axis])

RECURSIVE AxisMax(_, _, _)
AxisMax(kept, axis, n) ==
    IF n = 1 THEN kept[1][axis] ELSE MathMax(AxisMax(kept, axis, n - 1), kept[n][axis])

\* maxX - minX || 1, the difference being Infinity when it overflows
AxisRange(min, max) ==
    LET range == jsAdd(max, fNeg(min))
    IN  IF range = fZero THEN fromInt(1) ELSE range

\* Math.max(rangeX, rangeY, rangeZ)
MaxRange(rx, ry, rz) ==
    IF NonFinite \in {rx, ry, rz} THEN NonFinite ELSE MathMax(MathMax(rx, ry), rz)

\* 2 / maxRange, which is 0 for the range Infinity
NormalScale(maxRange) ==
    IF maxRange = NonFinite THEN fZero ELSE Overflowed(fDiv(fromInt(2), maxRange))

\* (minX + maxX) / 2
AxisCenter(min, max) ==
    LET sum == jsAdd(min, max)
    IN  IF sum = NonFinite THEN NonFinite ELSE fDivInt(sum, 2)

\* positions[i * 3 + axis] = (p - center) * scale, into a Float32Array
Position32(p, center, scale) == Float32(jsMul(jsAdd(p, fNeg(center)), scale))

\* the positions of the points of a call, normalised with a factor of 1
\* whatever their ranges are
NormalizedUnscaled(kept) ==
    [i \in 1..Len(kept) |->
        [axis \in 1..3 |->
            Position32(kept[i][axis],
                       AxisCenter(AxisMin(kept, axis, Len(kept)),
                                  AxisMax(kept, axis, Len(kept))),
                       fromInt(1))]]

\* the positions of the points, normalised to fit the cube centred at the origin
Normalized(kept) ==
    [i \in 1..Len(kept) |->
        [axis \in 1..3 |->
            Position32(kept[i][axis],
                       AxisCenter(AxisMin(kept, axis, Len(kept)),
                                  AxisMax(kept, axis, Len(kept))),
                       NormalScale(MaxRange(
                           AxisRange(AxisMin(kept, 1, Len(kept)), AxisMax(kept, 1, Len(kept))),
                           AxisRange(AxisMin(kept, 2, Len(kept)), AxisMax(kept, 2, Len(kept))),
                           AxisRange(AxisMin(kept, 3, Len(kept)), AxisMax(kept, 3, Len(kept))))))]]

\* the divergence branch without its continue: the point is emitted as well
ReseededAndEmitted(tIdx) ==
    [call EXCEPT !.x = StartCoordinate(Draw(1)), !.y = StartCoordinate(Draw(2)),
                 !.z = StartCoordinate(Draw(3)), !.i = @ + 1, !.diverged = @ + 1,
                 !.late = IF call.i >= call.options.skipIterations THEN @ + 1 ELSE @,
                 !.tIdx = tIdx, !.points = @ + 1]

\* if (!isFinite(x) || !isFinite(y) || !isFinite(z)) { x = ...; y = ...; z = ...; continue }
\* late counts the divergent iterations with i >= skipIterations
Reseeded(tIdx) ==
    [call EXCEPT !.x = StartCoordinate(Draw(1)), !.y = StartCoordinate(Draw(2)),
                 !.z = StartCoordinate(Draw(3)), !.i = @ + 1, !.diverged = @ + 1,
                 !.late = IF call.i >= call.options.skipIterations THEN @ + 1 ELSE @,
                 !.tIdx = tIdx]

\* the iteration pushing its point whatever i is
MovedAndEmitted(p, tIdx) ==
    [call EXCEPT !.x = p.x, !.y = p.y, !.z = p.z, !.i = @ + 1, !.tIdx = tIdx,
                 !.points = @ + 1, !.color = call.genome.transforms[tIdx].color,
                 !.kept = IF Keeps(call.options) THEN Append(@, <<p.x, p.y, p.z>>) ELSE @]

\* if (i >= skipIterations) points.push({ x, y, z, color: t.color }); color is
\* the colour of the point pushed last
Moved(p, tIdx) ==
    [call EXCEPT !.x = p.x, !.y = p.y, !.z = p.z, !.i = @ + 1, !.tIdx = tIdx,
                 !.points = IF call.i >= call.options.skipIterations THEN @ + 1 ELSE @,
                 !.color = IF call.i >= call.options.skipIterations
                           THEN call.genome.transforms[tIdx].color ELSE @,
                 !.kept = IF call.i >= call.options.skipIterations /\ Keeps(call.options)
                          THEN Append(@, <<p.x, p.y, p.z>>) ELSE @]

\* one iteration of the loop
Iterate ==
    /\ call.op = "generateFractalPoints" /\ call.pc = "loop"
    /\ call.i < call.options.iterations
    /\ LET tIdx == selectTransform(call.genome.transforms, Draw(0))
           t == call.genome.transforms[tIdx]
           p == applyTransform3D(call.x, call.y, call.z, t)
       IN  IF p.x = NonFinite \/ p.y = NonFinite \/ p.z = NonFinite
           THEN call' = Reseeded(tIdx) /\ mathRandom' = Drew(4)
           ELSE call' = Moved(p, tIdx) /\ mathRandom' = Drew(1)
    /\ UNCHANGED <<genome3d, evolution3d, clock, objects, hookVars, evolveVars>>

\* after the loop: the empty point set if nothing was emitted, the
\* normalised points if not (their positions where the points were kept)
ReturnPoints ==
    /\ call.op = "generateFractalPoints" /\ call.pc = "loop"
    /\ call.i >= call.options.iterations
    /\ call' = [call EXCEPT !.pc = "returned",
                            !.result = IF call.points = 0 THEN PointSet(0)
                                       ELSE PointSet(call.points),
                            !.positions = Normalized(call.kept)]
    /\ UNCHANGED <<moduleVars, hookVars, evolveVars>>

NextChaos == CallGenerateFractalPoints \/ Iterate \/ ReturnPoints

SpecChaos == InitChaos /\ [][NextChaos]_vars

\* C12: the chaos game on a genome whose matrices were all passed through
\* enforceContractivity never computes a coordinate that is not finite
C12_NeverDiverges ==
    (call.op = "generateFractalPoints" /\ call.genome.enforced) => call.diverged = 0


\* a coordinate of a start point: a double in [-1, 1)
InStartCube(x) == x # NonFinite /\ fLess(x, fromInt(1)) /\ ~fLess(x, fromInt(-1))

\* an iteration that computed a coordinate that is not finite has emitted
\* nothing, has reseeded the point and has left the loop running
DivergenceRecovered ==
    (call.op = "generateFractalPoints" /\ call.pc = "loop"
        /\ call'.diverged = call.diverged + 1) =>
        /\ call'.pc = "loop" /\ call'.i = call.i + 1
        /\ call'.points = call.points
        /\ InStartCube(call'.x) /\ InStartCube(call'.y) /\ InStartCube(call'.z)

\* a call has returned a point set, the empty one with count 0 if it was
\* given no transform, if iterations <= skipIterations, or if no iteration
\* emitted a point
ReturnedPointSet ==
    (call.op = "generateFractalPoints" /\ call.pc = "returned") =>
        /\ call.result = PointSet(call.points)
        /\ (Len(call.genome.transforms) = 0
               \/ call.options.iterations <= call.options.skipIterations
               \/ call.diverged = call.options.iterations) => call.result = PointSet(0)
        /\ call.result.count = 0 =>
               call.result.positions = 0 /\ call.result.colors = 0

\* C16: generateFractalPoints recovers from a divergence where it happens
\* (nothing emitted, the point reseeded, the loop continued) and returns the
\* empty point set with count 0 whenever no point was emitted
C16_RecoversAndReturnsEmpty == []ReturnedPointSet /\ [][DivergenceRecovered]_vars

\* every iteration of a call diverged, sampled ones included, and the call
\* returned the empty point set
C16_Witness ==
    /\ call.op = "generateFractalPoints" /\ call.pc = "returned"
    /\ call.options.iterations > call.options.skipIterations
    /\ call.diverged = call.options.iterations
    /\ call.result = PointSet(0)

(***************************************************************************)
(* SpecBlend: blendCrossover of breeding.ts on transforms with all their   *)
(* fields, in doubles.                                                     *)
(***************************************************************************)
\* x - y
fSub(x, y) == fAdd(x, fNeg(y))

\* Math.round(x): floor(x + 0.5), computed exactly
MathRound(x) ==
    IF x.m = <<>> \/ x.e >= 0 THEN x
    ELSE fRound(x.s, NatShiftRight(NatAdd(x.m, IF x.s = 1 THEN NatShiftLeft(<<1>>, 0 - x.e - 1)
                                               ELSE NatSub(NatShiftLeft(<<1>>, 0 - x.e - 1), <<1>>)),
                                   0 - x.e), 0)

\* v * alpha + w * (1 - alpha)
Interpolated(v, w, alpha) == fAdd(fMul(v, alpha), fMul(w, fSub(fromInt(1), alpha)))

\* the transform blendCrossover pushes at index i for the factor alpha
BlendValuesAt(a, b, i, alpha) ==
    IF i <= Len(a) /\ i <= Len(b)
    THEN [m  |-> [j \in 1..9 |-> Interpolated(a[i].m[j], b[i].m[j], alpha)],
          tx |-> Interpolated(a[i].tx, b[i].tx, alpha),
          ty |-> Interpolated(a[i].ty, b[i].ty, alpha),
          tz |-> Interpolated(a[i].tz, b[i].tz, alpha),
          probability |-> Interpolated(a[i].probability, b[i].probability, alpha),
          color |-> [j \in 1..3 |-> MathRound(Interpolated(a[i].color[j], b[i].color[j], alpha))]]
    ELSE IF i <= Len(a)
    THEN [a[i] EXCEPT !.probability = fMul(@, alpha)]
    ELSE [b[i] EXCEPT !.probability = fMul(@, fSub(fromInt(1), alpha))]

\* an argument left out
Undefined == [undefined |-> TRUE]

\* const alpha = blendFactor ?? Math.random(), for the draw d in hundredths
BlendFactor(blendFactor, d) == IF blendFactor = Undefined THEN fLiteral(d, 100) ELSE blendFactor

\* blendCrossover(a, b, blendFactor) on the values of the transforms
blendCrossoverValues(a, b, alpha) ==
    [i \in 1..Max(Len(a), Len(b)) |-> BlendValuesAt(a, b, i, alpha)]

\* transforms as the seed constructors and createRandomTransform make them,
\* with whole colours, and one as randomMutation leaves it, its colour moved by
\* randomRange(-40, 40)
BlendTransforms ==
    {AffineTransform3D(Diagonal(5), 5, -3, 0, 10, <<2550, 1000, 0>>),
     AffineTransform3D(Stretch(-7), 0, 2, 9, 3, <<0, 640, 2550>>),
     AffineTransform3D(Diagonal(3), -8, 1, 4, 7, <<1273, 2004, 185>>)}

MaxBlendLen == 2

BlendLists == UNION {[1..n -> BlendTransforms] : n \in 1..MaxBlendLen}

BlendFactors == {Undefined, fromInt(1), fZero, fLiteral(3, 10)}

BlendStreams == {<<0, 42>>, <<42, 0>>}

InitBlend ==
    /\ call \in {[op |-> "pending", a |-> a, b |-> b, blendFactor |-> blendFactor] :
                    a \in BlendLists, b \in BlendLists, blendFactor \in BlendFactors}
    /\ mathRandom \in {[stream |-> stream, pos |-> 1] : stream \in BlendStreams}
    /\ genome3d = <<>> /\ evolution3d = 0 /\ clock = 0 /\ objects = 0
    /\ IdleHook

CallBlendCrossover ==
    /\ call.op = "pending"
    /\ call' = [op |-> "blendCrossover", a |-> call.a, b |-> call.b,
                blendFactor |-> call.blendFactor,
                alpha |-> BlendFactor(call.blendFactor, Draw(0)),
                result |-> blendCrossoverValues(call.a, call.b,
                                                BlendFactor(call.blendFactor, Draw(0)))]
    /\ mathRandom' = IF call.blendFactor = Undefined THEN Drew(1) ELSE mathRandom
    /\ UNCHANGED <<genome3d, evolution3d, clock, objects, hookVars, evolveVars>>

NextBlend == CallBlendCrossover

SpecBlend == InitBlend /\ [][NextBlend]_vars

\* C13: a blend with factor 1 returns parent A field for field at every index
\* of both parents, a blend with factor 0 returns parent B, and a factor of 0
\* is used as given
C13_BlendEndpoints ==
    call.op = "blendCrossover" =>
        /\ call.blendFactor = fromInt(1) =>
               \A i \in 1..Min(Len(call.a), Len(call.b)) : call.result[i] = call.a[i]
        /\ call.blendFactor = fZero =>
               /\ call.alpha = fZero
               /\ \A i \in 1..Min(Len(call.a), Len(call.b)) : call.result[i] = call.b[i]

\* C14: every transform a crossover with a random blend factor returns has a
\* probability above 0, whatever Math.random() drew
C14_PositiveProbability ==
    (call.op = "blendCrossover" /\ call.blendFactor = Undefined) =>
        \A i \in 1..Len(call.result) : fLess(fZero, call.result[i].probability)


\* C15: every genome of a population that a constructor made, the seed
\* genomes and the random genomes of createInitialPopulation3D and the
\* random genomes injected later, has between 2 and 8 transforms
C15_ConstructedTransformCount ==
    \A genome \in PopulationGenomes :
        genome.parentIds = <<>> => Len(genome.transforms) \in 2..8

(***************************************************************************)
(* SpecInputs: evolveGeneration3D called with any population and any       *)
(* populationSize, the empty population and sizes of 0 and less included.  *)
(* A call that throws is recorded with the name of its error.              *)
(***************************************************************************)
\* Math.max() of no argument, plus 1
MinusInfinity == "-Infinity"

\* selectParent(population, cfg) on the empty population, and what follows
\* it in the while loop: tournamentSelect pushes population[0], undefined,
\* tournamentSize times and calculateFitness(undefined) throws;
\* fitnessProportionateSelect returns population[-1], undefined, and then
\* crossover(undefined, ...) throws after the second selection, or
\* mutateGenome(undefined, ...) does.  The environment when the error is thrown
ThrownAt(cfg, env) ==
    IF cfg.tournamentSize > 1 THEN Skip(env, cfg.tournamentSize)
    ELSE IF DrawAt(env, 1) < cfg.crossoverRate THEN Skip(env, 3)
    ELSE Skip(env, 2)

\* evolveGeneration3D([], config): no elite, the injected genomes, and the
\* while loop if genomes are missing
evolveGeneration3DOfNone(cfg, env) ==
    LET st == Inject([newPopulation |-> <<>>, env |-> env], MinusInfinity, cfg.randomInjection)
    IN  IF Len(st.newPopulation) < cfg.populationSize
        THEN [error |-> "TypeError", newPopulation |-> <<>>, env |-> ThrownAt(cfg, st.env)]
        ELSE [error |-> "none", newPopulation |-> st.newPopulation, env |-> st.env]

InputPopulations == {<<>>, <<OpGenome(1)>>, <<OpGenome(3), OpGenome(2), OpGenome(4)>>}

InputConfigs ==
    {[populationSize |-> n, randomInjection |-> r, tournamentSize |-> t] :
        n \in {-1, 0, 1, 2}, r \in {0, 1, 2}, t \in {1, 3}}

InitInputs ==
    /\ state \in {[population |-> population] : population \in InputPopulations}
    /\ hookConfig \in InputConfigs
    /\ mathRandom \in {[stream |-> stream, pos |-> 1] : stream \in OpStreams}
    /\ clock = 0
    /\ genome3d = GenomeModule(0, LoadSeed(0))
    /\ evolution3d = 0
    /\ objects = 1000
    /\ fitnessTable = <<>> /\ selection = <<>>
    /\ call = [op |-> "load", calls |-> 0]

\* evolveGeneration3D(population, config) on the empty population
CallEvolveGeneration3DOfNone ==
    /\ call.op = "load"
    /\ state.population = <<>>
    /\ LET r == evolveGeneration3DOfNone(OpConfig, OpEnv)
       IN  Returned(IF r.error = "none" THEN "evolveGeneration3D" ELSE r.error,
                    state.population, r.newPopulation, <<>>, r.env)
    /\ UNCHANGED evolveVars

\* evolveGeneration3D(population, config) on a population of some genomes
CallEvolveGeneration3DOfSome ==
    /\ call.op = "load"
    /\ state.population # <<>>
    /\ Selecting(state.population, hookConfig, mathRandom.stream)
    /\ ReturnedPopulation("evolveGeneration3D", state.population,
                          evolveGeneration3D(state.population, hookConfig, selection', OpEnv))

NextInputs == CallEvolveGeneration3DOfNone \/ CallEvolveGeneration3DOfSome

SpecInputs == InitInputs /\ [][NextInputs]_vars

\* C17: a call of evolveGeneration3D with populationSize <= 0 or with the
\* empty population ends with an error and returns no population
C17_FailsFast ==
    (call.op \in {"evolveGeneration3D", "TypeError"}
        /\ (call.config.populationSize <= 0 \/ call.inputs = <<>>)) =>
        call.op = "TypeError"


\* the transforms mutateGenome has when it comes to its structural mutation
BeforeStructure(genome, config, env) ==
    EnforcedAll(MutateTransforms(NewArray(env), genome.transforms, config,
                                 1, Len(genome.transforms)),
                config)

\* the removal check: the first draw and the count
RemovalFires(st, config) ==
    /\ config.allowStructuralMutation
    /\ DrawAt(st.env, 0) < config.structuralMutationRate
    /\ Len(st.transforms) > 2

\* an append check made whatever the removal check gave: its draw comes after
\* the draws of the removal, and it reads the count the removal left
IndependentAppendFires(st, config) ==
    /\ config.allowStructuralMutation
    /\ IF RemovalFires(st, config)
       THEN DrawAt(st.env, 2) < config.structuralMutationRate /\ Len(st.transforms) - 1 < 8
       ELSE DrawAt(st.env, 1) < config.structuralMutationRate /\ Len(st.transforms) < 8

\* the append check of the else branch: only made when the removal did not fire
AppendFires(st, config) ==
    /\ config.allowStructuralMutation
    /\ ~RemovalFires(st, config)
    /\ DrawAt(st.env, 1) < config.structuralMutationRate
    /\ Len(st.transforms) < 8

\* the environment SpecOps begins with
FirstOpEnv == Env(mathRandom.stream, 1, 0, 1, 0, GenomeModule(0, LoadSeed(0)), 1000)

\* C19 as stated: the two checks of the structural mutation are independent,
\* so the genome mutateGenome returns has lost a transform whenever the
\* removal check fired and gained one whenever the append check fired, both
\* in the same call if both fired
C19_IndependentChecks ==
    [][call'.op = "mutateGenome" =>
          LET st == BeforeStructure(call'.inputs[1], call'.config, OpEnv)
          IN  Len(call'.genomes[1].transforms)
                  = Len(st.transforms)
                    - (IF RemovalFires(st, call'.config) THEN 1 ELSE 0)
                    + (IF IndependentAppendFires(st, call'.config) THEN 1 ELSE 0)]_vars

\* C19: the append check of mutateGenome is the else branch of the removal
\* check: a call in which the removal check fired removes one transform and
\* appends none, a call in which it did not appends one if the append check
\* fired, and no call does both
C19_RemovalExcludesAppend ==
    [][call'.op = "mutateGenome" =>
          LET st == BeforeStructure(call'.inputs[1], call'.config, OpEnv)
          IN  Len(call'.genomes[1].transforms)
                  = Len(st.transforms)
                    + (IF RemovalFires(st, call'.config) THEN -1
                       ELSE IF AppendFires(st, call'.config) THEN 1 ELSE 0)]_vars

\* a first call of mutateGenome removed a transform, and the draw after the
\* removal was below structuralMutationRate with fewer than 8 transforms left
C19_Witness ==
    /\ call.op = "mutateGenome" /\ call.calls = 1
    /\ Len(call.genomes[1].transforms) = Len(call.inputs[1].transforms) - 1
    /\ RemovalFires(BeforeStructure(call.inputs[1], call.config, FirstOpEnv), call.config)
    /\ IndependentAppendFires(BeforeStructure(call.inputs[1], call.config, FirstOpEnv),
                              call.config)

\* C18: every genome evolveGeneration3D returns names as its parents genomes
\* of the input population: none if it was injected, one if it is an elite or
\* was mutated from one parent, and the two selected parents if it came out
\* of the crossover branch, mutated afterwards or not
C18_ParentIds ==
    call.op = "evolveGeneration3D" =>
        \A i \in 1..Len(call.genomes) :
            /\ Len(call.genomes[i].parentIds) <= 2
            /\ \A k \in 1..Len(call.genomes[i].parentIds) :
                   call.genomes[i].parentIds[k] \in InputIds


(***************************************************************************)
(* SpecElites: evolveGeneration3D applied to rated populations, one of the *)
(* genomes having the twenty transforms of createMengerSponge.             *)
(***************************************************************************)
EliteLengths == <<20, 2, 3, 8>>
EliteSr == <<333, 780, 500, 600>>
EliteRatings == {"unset", "up", "down"}

\* a genome of the population as the constructors leave it, rated by the user
EliteGenome(k, rating) ==
    [id |-> <<0, 100 + k>>,
     transforms |-> [j \in 1..EliteLengths[k] |->
                        [sr |-> EliteSr[k], m |-> 100 * k + 2 * j + 1,
                         color |-> 100 * k + 2 * j + 2]],
     generation |-> 0, parentIds |-> <<>>, rating |-> rating,
     obj |-> 100 * k + 1, array |-> 100 * k + 2]

ElitePopulations ==
    {[k \in 1..Len(EliteLengths) |-> EliteGenome(k, ratings[k])] :
        ratings \in [1..Len(EliteLengths) -> EliteRatings]}

EliteConfigs ==
    {[populationSize |-> 4, eliteCount |-> n, randomInjection |-> 1] : n \in {0, 1, 2, 4}}

InitElites ==
    /\ state \in {[population |-> population] : population \in ElitePopulations}
    /\ hookConfig \in EliteConfigs
    /\ mathRandom \in {[stream |-> stream, pos |-> 1] : stream \in OpStreams}
    /\ clock = 0
    /\ genome3d = GenomeModule(0, LoadSeed(0))
    /\ evolution3d = 0
    /\ objects = 1000
    /\ fitnessTable = <<>> /\ selection = <<>>
    /\ call = [op |-> "load", calls |-> 0]

\* evolveGeneration3D(population, config) on the rated population
CallEvolveGeneration3DOfRated ==
    /\ call.op = "load"
    /\ Selecting(state.population, hookConfig, mathRandom.stream)
    /\ ReturnedPopulation("evolveGeneration3D", state.population,
                          evolveGeneration3D(state.population, hookConfig, selection', OpEnv))

NextElites == CallEvolveGeneration3DOfRated

SpecElites == InitElites /\ [][NextElites]_vars

\* the elite copies of a new population: the genomes pushed before the first
\* injected one, randomInjection being positive
ElitesOf(genomes) ==
    SubSeq(genomes, 1,
           Cardinality({i \in 1..Len(genomes) :
                           \A j \in 1..i : genomes[j].parentIds # <<>>}))

RatedUp(population) == {i \in 1..Len(population) : population[i].rating = "up"}

\* every elite copy has the id of one up-rated genome for its parents and as
\* many transforms as that genome
ElitesCopyRatedUp ==
    \A elite \in {ElitesOf(call.genomes)[e] : e \in 1..Len(ElitesOf(call.genomes))} :
        \E i \in RatedUp(call.inputs) :
            /\ elite.parentIds = <<call.inputs[i].id>>
            /\ Len(elite.transforms) = Len(call.inputs[i].transforms)

\* C20: evolveGeneration3D places min(eliteCount, number of genomes rated up)
\* elite copies in the new population, each with the id of one up-rated genome
\* as its only parent and with as many transforms as that genome
C20_ElitesKeepRatedUp ==
    (call.op = "evolveGeneration3D" /\ call.config.randomInjection > 0) =>
        /\ Len(ElitesOf(call.genomes)) =
              IF call.config.eliteCount < Cardinality(RatedUp(call.inputs))
              THEN call.config.eliteCount ELSE Cardinality(RatedUp(call.inputs))
        /\ ElitesCopyRatedUp


(***************************************************************************)
(* SpecSelect: selectParent applied to bounded populations, with           *)
(* tournaments of every small size.                                        *)
(***************************************************************************)
MaxSelectCalls == 2

TournamentSizes == {0, 1, 2, 3}

SelectPopulations ==
    OpPopulations \cup {<<OpGenome(1), OpGenome(2), OpGenome(3), OpGenome(4)>>,
                        <<EliteGenome(2, "unset"), EliteGenome(3, "unset"),
                          EliteGenome(4, "down")>>}

InitSelect ==
    /\ state \in {[population |-> population] : population \in SelectPopulations}
    /\ hookConfig \in {[tournamentSize |-> k] : k \in TournamentSizes}
    /\ mathRandom \in {[stream |-> stream, pos |-> pos] :
                          stream \in OpStreams, pos \in {1, 4, 9}}
    /\ clock = 0
    /\ genome3d = GenomeModule(0, LoadSeed(0))
    /\ evolution3d = 0
    /\ objects = 1000
    /\ fitnessTable = <<>> /\ selection = <<>>
    /\ call = [op |-> "load", calls |-> 0]

\* selectParent(population, cfg), as the while loop of evolveGeneration3D calls it
CallSelectParent ==
    /\ call.calls < MaxSelectCalls
    /\ Selecting(state.population, hookConfig, mathRandom.stream)
    /\ LET r == selectParent(state.population, selection', OpConfig, OpEnv)
       IN  /\ call' = [op |-> "selectParent", calls |-> call.calls + 1,
                       inputs |-> state.population, config |-> OpConfig,
                       index |-> r.index, from |-> mathRandom.pos]
           /\ mathRandom' = [mathRandom EXCEPT !.pos = r.env.pos]
    /\ UNCHANGED <<clock, evolution3d, genome3d, objects, hookVars>>

NextSelect == CallSelectParent

SpecSelect == InitSelect /\ [][NextSelect]_vars

\* the draw the call made k draws after its first, in hundredths
CallDraw(k) == mathRandom.stream[((call.from - 1 + k) % Len(mathRandom.stream)) + 1]

\* the draws the call made
CallDraws(n) == mathRandom.pos = ((call.from - 1 + n) % Len(mathRandom.stream)) + 1

\* the genomes a tournament of the call's size drew
TournamentDrawn ==
    {(CallDraw(k) * Len(call.inputs)) \div 100 + 1 : k \in 0..(call.config.tournamentSize - 1)}

\* what is left of r = Math.random() * totalFitness after the first i fitnesses
RECURSIVE WheelLeft(_)
WheelLeft(i) ==
    IF i = 0
    THEN fMul(fLiteral(CallDraw(0), 100),
              SumFitness(fZero, fitnessTable, 1, Len(fitnessTable)))
    ELSE fAdd(WheelLeft(i - 1), [fitnessTable[i] EXCEPT !.s = 0 - @])

\* the wheel stops at the first genome that leaves nothing of r, or at the last
WheelStopsAt(index) ==
    /\ \A j \in 1..(index - 1) : fLess(fZero, WheelLeft(j))
    /\ index = Len(call.inputs) \/ ~fLess(fZero, WheelLeft(index))

\* C21: selectParent holds a tournament exactly when tournamentSize > 1 and
\* spins the fitness-proportionate wheel otherwise; the parent selected is a
\* genome of the population, and the winner of a tournament is at least as
\* fit as every genome the tournament drew
C21_SelectParent ==
    call.op = "selectParent" =>
        /\ call.index \in 1..Len(call.inputs)
        /\ IF call.config.tournamentSize > 1
           THEN /\ CallDraws(call.config.tournamentSize)
                /\ call.index \in TournamentDrawn
                /\ \A i \in TournamentDrawn :
                      ~fLess(fitnessTable[call.index], fitnessTable[i])
           ELSE /\ CallDraws(1)
                /\ WheelStopsAt(call.index)

\* a tournament of three that drew genomes of different fitness, and a wheel
\* that stopped before the last genome
C21_Witness ==
    /\ call.op = "selectParent"
    /\ call.config.tournamentSize = 3
    /\ \E i \in TournamentDrawn : fLess(fitnessTable[i], fitnessTable[call.index])

C21_WheelWitness ==
    /\ call.op = "selectParent"
    /\ call.config.tournamentSize = 1
    /\ call.index \in 2..(Len(call.inputs) - 1)


\* the points emitted so far: the iterations past the first skipIterations
\* less the divergent ones among them
EmittedCount ==
    call.points = Max(0, call.i - call.options.skipIterations) - call.late

\* an iteration that emits a point gives it the colour of the transform it
\* has just selected and applied, and no iteration with i < skipIterations
\* emits a point
EmittedColour ==
    (call.op = "generateFractalPoints" /\ call.pc = "loop"
        /\ call'.points # call.points) =>
        /\ call.i >= call.options.skipIterations
        /\ call'.points = call.points + 1
        /\ call'.tIdx = selectTransform(call.genome.transforms, Draw(0))
        /\ call'.color = call.genome.transforms[call'.tIdx].color

\* C22, as stated: a call with N iterations and skip count S returns
\* max(0, N - S) points less the divergent iterations at index >= S
C22_EmittedCount ==
    (call.op = "generateFractalPoints" /\ call.pc = "returned") =>
        call.result.count =
            Max(0, call.options.iterations - call.options.skipIterations) - call.late

\* C22: for a genome of at least one transform, no point is emitted in the
\* first S iterations, a divergent iteration emits nothing and counts as
\* one of the N, the call returns max(0, N - S) points less the divergent
\* iterations at index >= S, and every point emitted has the colour of the
\* transform applied in its iteration
C22_EmittedCountOfSome ==
    /\ [](call.op = "generateFractalPoints" /\ Len(call.genome.transforms) > 0 =>
             /\ EmittedCount
             /\ call.pc = "returned" =>
                   /\ call.i = call.options.iterations
                   /\ call.result.count = call.points)
    /\ [][EmittedColour]_vars

\* a call that returned points although iterations at index >= S diverged,
\* the last point having the colour of the second transform
C22_Witness ==
    /\ call.op = "generateFractalPoints" /\ call.pc = "returned"
    /\ call.late > 0 /\ call.result.count > 0
    /\ call.options.skipIterations > 0

C22_ColourWitness ==
    /\ call.op = "generateFractalPoints" /\ call.points > 0
    /\ Len(call.genome.transforms) > 1
    /\ call.color = call.genome.transforms[2].color


(***************************************************************************)
(* SpecNormalize: generateFractalPoints on runs that emit a few points,    *)
(* which are kept and normalised one by one.                               *)
(***************************************************************************)
\* the iterations after which the enforced genome stretching x by 5 has its
\* last finite points
LastFinite == 1833

NormalizeOptions ==
    {[iterations |-> 1, skipIterations |-> 0], [iterations |-> 3, skipIterations |-> 0],
     [iterations |-> skipIterations + 2, skipIterations |-> skipIterations],
     [iterations |-> LastFinite, skipIterations |-> LastFinite - 2]}

InitNormalize ==
    /\ call \in {[op |-> "pending", genome |-> genome, options |-> options] :
                    genome \in {g \in ChaosGenomes : g.enforced}, options \in NormalizeOptions}
    /\ mathRandom \in {[stream |-> stream, pos |-> 1] : stream \in ChaosStreams}
    /\ genome3d = <<>> /\ evolution3d = 0 /\ clock = 0 /\ objects = 0
    /\ IdleHook

SpecNormalize == InitNormalize /\ [][NextChaos]_vars

Coordinates(points) == UNION {{points[i][axis] : axis \in 1..3} : i \in 1..Len(points)}

InUnitInterval(x) == x # NonFinite /\ ~fLess(fromInt(1), x) /\ ~fLess(x, fromInt(-1))

\* C23: generateFractalPoints returns a position for every point emitted,
\* every coordinate of it (the point less the midpoint of its axis, times
\* 2 / max(rangeX, rangeY, rangeZ) with a range of zero counting as 1) lies
\* in [-1, 1], and all coordinates are 0 when the points are all the same
C23_Normalized ==
    (call.op = "generateFractalPoints" /\ call.pc = "returned" /\ call.kept # <<>>) =>
        /\ Len(call.positions) = Len(call.kept)
        /\ \A v \in Coordinates(call.positions) : InUnitInterval(v)
        /\ (\A i \in 1..Len(call.kept) : call.kept[i] = call.kept[1]) =>
               Coordinates(call.positions) = {fZero}


\* the result of the call is deep copies of the first c transforms of the
\* first parent followed by deep copies of the second parent's transforms
\* from the c-th on
CrossedAt(c) ==
    /\ Len(call.transforms) = Len(call.inputs[2].transforms)
    /\ \A i \in 1..Len(call.transforms) :
          /\ call.transforms[i].sr = IF i <= c THEN call.inputs[1].transforms[i].sr
                                     ELSE call.inputs[2].transforms[i].sr
          /\ {call.transforms[i].m, call.transforms[i].color} \cap InputObjects = {}
          /\ call.transforms[i].m # call.transforms[i].color
          /\ \A j \in 1..(i - 1) :
                {call.transforms[i].m, call.transforms[i].color}
                \cap {call.transforms[j].m, call.transforms[j].color} = {}

\* C24: singlePointCrossover(A, B) of two non-empty lists returns, for some c
\* in [0, min(len A, len B)), deep copies of A[0..c) followed by deep copies
\* of B[c..len B), hence exactly len B transforms
C24_SinglePoint ==
    (call.op = "crossover" /\ call.config.crossoverType = "single-point") =>
        \E c \in 0..(Min(Len(call.inputs[1].transforms),
                         Len(call.inputs[2].transforms)) - 1) : CrossedAt(c)

\* a crossover of parents of different lengths at an inner point
C24_Witness ==
    /\ call.op = "crossover" /\ call.config.crossoverType = "single-point"
    /\ Len(call.inputs[1].transforms) > Len(call.inputs[2].transforms)
    /\ \E c \in 1..(Len(call.inputs[2].transforms) - 1) : CrossedAt(c)


(***************************************************************************)
(* SpecMutate: the mutation operators of breeding.ts on transforms with    *)
(* values.  The matrix a mutation rebuilds through decomposeMatrix and     *)
(* reconstructMatrix is not part of these results; SpecOps has it by its   *)
(* spectral radius.                                                        *)
(***************************************************************************)
\* the draw of Math.random() at a position of the stream, in hundredths
DrawOf(stream, pos) == stream[((pos - 1) % Len(stream)) + 1]

\* randomRange(min, max) for the draw d: Math.random() * (max - min) + min
randomRangeValue(d, min, max) == fAdd(fMul(fLiteral(d, 100), fSub(max, min)), min)

\* v + (Math.random() < threshold ? randomRange(-reach, reach) : 0)
Perturbed(v, threshold, reach, stream, pos) ==
    IF DrawOf(stream, pos) < threshold
    THEN [v   |-> fAdd(v, randomRangeValue(DrawOf(stream, pos + 1), fNeg(reach), reach)),
          pos |-> pos + 2]
    ELSE [v |-> v, pos |-> pos + 1]

\* Math.max(0, Math.min(255, c + randomRange(-reach, reach)))
ChannelMoved(c, reach, d) ==
    MathMax(fZero, MathMin(fromInt(255), fAdd(c, randomRangeValue(d, fNeg(reach), reach))))

\* the three channels moved by the draws at pos, pos + 1 and pos + 2
ColorMoved(color, reach, stream, pos) ==
    [j \in 1..3 |-> ChannelMoved(color[j], reach, DrawOf(stream, pos + j - 1))]

\* the properties of the object literal after the matrix, in their order:
\* each is perturbed from the draw where the one before it ended
RECURSIVE PerturbedEach(_, _, _, _)
PerturbedAfter(done, r, rest, stream) == PerturbedEach(Append(done, r.v), rest, stream, r.pos)

PerturbedEach(done, rest, stream, pos) ==
    IF rest = <<>> THEN [v |-> done, pos |-> pos]
    ELSE PerturbedAfter(done,
                        Perturbed(Head(rest).v, Head(rest).threshold, Head(rest).reach,
                                  stream, pos),
                        Tail(rest), stream)

\* the object literal of the perturbed tx, ty, tz and probability p.v, the
\* color moved if the draw at p.pos is below 0.2
OthersColoured(t, p, stream) ==
    [tx |-> p.v[1], ty |-> p.v[2], tz |-> p.v[3],
     probability |-> MathMax(fLiteral(1, 10), p.v[4]),
     color |-> IF DrawOf(stream, p.pos) < 20
               THEN ColorMoved(t.color, fromInt(40), stream, p.pos + 1)
               ELSE t.color,
     pos |-> IF DrawOf(stream, p.pos) < 20 THEN p.pos + 4 ELSE p.pos + 1]

\* tx, ty, tz, probability and color of the object literal the two general
\* mutations return, reach being the reach of the translation
OthersMutated(t, reach, stream, pos) ==
    OthersColoured(t,
                   PerturbedEach(<<>>,
                                 <<[v |-> t.tx, threshold |-> 40, reach |-> reach],
                                   [v |-> t.ty, threshold |-> 40, reach |-> reach],
                                   [v |-> t.tz, threshold |-> 40, reach |-> reach],
                                   [v |-> t.probability, threshold |-> 30,
                                    reach |-> fLiteral(2, 10)]>>,
                                 stream, pos),
                   stream)

\* the position after the cell loop of randomMutation: a draw for each of
\* the n cells left and one more for each cell moved
RECURSIVE AfterCells(_, _, _)
AfterCells(stream, pos, n) ==
    IF n = 0 THEN pos
    ELSE AfterCells(stream, IF DrawOf(stream, pos) < 50 THEN pos + 2 ELSE pos + 1, n - 1)

\* the position after the scales (40%), the angles (50%) and the shears (30%)
\* of structuredMutation: a draw each and three more for each that moves
AfterParams(stream, pos) ==
    LET scales == IF DrawOf(stream, pos) < 40 THEN pos + 4 ELSE pos + 1
        angles == IF DrawOf(stream, scales) < 50 THEN scales + 4 ELSE scales + 1
    IN  IF DrawOf(stream, angles) < 30 THEN angles + 4 ELSE angles + 1

\* where the draws for the translation begin
TailOf(type, stream, pos) ==
    IF type = "random" THEN AfterCells(stream, pos, 9) ELSE AfterParams(stream, pos)

\* a reach of strength * 2 for both general mutations
ReachDoubled(type, strength) == fMul(strength, fromInt(2))

\* the reach of the translation: strength * 2 in randomMutation, strength in
\* structuredMutation
Reach(type, strength) ==
    IF type = "random" THEN fMul(strength, fromInt(2)) ELSE strength

\* randomMutation(t, strength) and structuredMutation(t, strength): what they
\* return but for the matrix
mutationValues(type, t, strength, stream, pos) ==
    OthersMutated(t, Reach(type, strength), stream, TailOf(type, stream, pos))

\* translationMutation(t, strength)
translationMutationValues(t, strength, stream, pos) ==
    [m |-> t.m,
     tx |-> fAdd(t.tx, randomRangeValue(DrawOf(stream, pos), fNeg(strength), strength)),
     ty |-> fAdd(t.ty, randomRangeValue(DrawOf(stream, pos + 1), fNeg(strength), strength)),
     tz |-> fAdd(t.tz, randomRangeValue(DrawOf(stream, pos + 2), fNeg(strength), strength)),
     probability |-> t.probability, color |-> t.color, pos |-> pos + 3]

\* the color mutation that moves no channel beyond 255 but lets it fall below 0
colorMutationUnfloored(t, strength, stream, pos) ==
    [m |-> t.m, tx |-> t.tx, ty |-> t.ty, tz |-> t.tz, probability |-> t.probability,
     color |-> [j \in 1..3 |->
                   MathMin(fromInt(255),
                           fAdd(t.color[j],
                                randomRangeValue(DrawOf(stream, pos + j - 1),
                                                 fNeg(strength), strength)))],
     pos |-> pos + 3]

\* colorMutation(t, strength)
colorMutationValues(t, strength, stream, pos) ==
    [m |-> t.m, tx |-> t.tx, ty |-> t.ty, tz |-> t.tz, probability |-> t.probability,
     color |-> ColorMoved(t.color, strength, stream, pos), pos |-> pos + 3]

\* mutateTransform(t, type, strength) for the four types of this specification
mutateTransformValues(t, type, strength, stream, pos) ==
    IF type = "translation" THEN translationMutationValues(t, strength, stream, pos)
    ELSE IF type = "color"
    THEN colorMutationValues(t, fMul(strength, fromInt(400)), stream, pos)
    ELSE mutationValues(type, t, strength, stream, pos)

MutateTypes == {"random", "structured", "translation", "color"}

\* mutationStrength: the default, and that of the colorFocused preset
MutateStrengths == {fLiteral(12, 100), fLiteral(3, 10)}

MutateStreams ==
    {<<0, 99, 45, 10, 0, 30, 99, 25, 50, 5, 0, 99, 60>>,
     <<35, 75, 39, 1, 20, 98, 19, 0, 99, 50, 80>>,
     <<70, 60, 90, 45, 55, 41, 42, 99, 31, 21, 65, 85, 95, 44, 77, 66, 88>>}

InitMutate ==
    /\ call \in {[op |-> "pending", type |-> type, t |-> t, strength |-> strength] :
                    type \in MutateTypes, t \in BlendTransforms,
                    strength \in MutateStrengths}
    /\ mathRandom \in {[stream |-> stream, pos |-> pos] :
                          stream \in MutateStreams, pos \in {1, 2, 4, 7}}
    /\ genome3d = <<>> /\ evolution3d = 0 /\ clock = 0 /\ objects = 0
    /\ IdleHook

\* the call returns r, having drawn up to r.pos
MutateTransformReturns(r) ==
    /\ call' = [op |-> "mutateTransform", type |-> call.type, t |-> call.t,
                strength |-> call.strength, from |-> mathRandom.pos, result |-> r]
    /\ mathRandom' = [mathRandom EXCEPT !.pos = ((r.pos - 1) % Len(mathRandom.stream)) + 1]

\* mutateTransform(t, type, strength)
CallMutateTransformValues ==
    /\ call.op = "pending"
    /\ MutateTransformReturns(mutateTransformValues(call.t, call.type, call.strength,
                                                    mathRandom.stream, mathRandom.pos))
    /\ UNCHANGED <<genome3d, evolution3d, clock, objects, hookVars, evolveVars>>

NextMutate == CallMutateTransformValues

SpecMutate == InitMutate /\ [][NextMutate]_vars

OtherFields == {"tx", "ty", "tz", "probability", "color"}

\* the translation, probability and colour of a result
Others(r) == [f \in OtherFields |-> r[f]]

OtherType(type) == IF type = "random" THEN "structured" ELSE "random"

\* what the rules of the other general mutation make of the draws that gave
\* the call its translation, probability and colour
OtherRules ==
    OthersMutated(call.t, Reach(OtherType(call.type), call.strength), mathRandom.stream,
                  TailOf(call.type, mathRandom.stream, call.from))

General == call.op = "mutateTransform" /\ call.type \in {"random", "structured"}

fAbs(x) == [x EXCEPT !.s = IF @ = 0 THEN 0 ELSE 1]

\* C25, as stated: structuredMutation mutates translation, probability and
\* colour by the rules of randomMutation, so that the same draws give the same
\* translation, probability and colour under both
C25_SameRules == General => Others(call.result) = Others(OtherRules)

\* v lies between the doubles base - reach and base + reach: it differs from
\* base by reach at most, but for the rounding of the sum
WithinReach(v, base, reach) ==
    ~fLess(v, fSub(base, reach)) /\ ~fLess(fAdd(base, reach), v)

\* C25: structuredMutation mutates probability and colour by the rules of
\* randomMutation and changes each translation component in the same cases
\* (a draw below 0.4), but by an amount within strength where randomMutation
\* reaches strength * 2
C25_SameRulesButReach ==
    General =>
        /\ call.result.probability = OtherRules.probability
        /\ call.result.color = OtherRules.color
        /\ call.result.pos = OtherRules.pos
        /\ \A f \in {"tx", "ty", "tz"} :
              /\ call.result[f] = call.t[f] <=> OtherRules[f] = call.t[f]
              /\ WithinReach(call.result[f], call.t[f],
                             IF call.type = "random"
                             THEN fMul(call.strength, fromInt(2)) ELSE call.strength)

\* a structured mutation that moved tx and the probability, tx by another
\* amount than the rules of randomMutation give
C25_Witness ==
    /\ call.op = "mutateTransform" /\ call.type = "structured"
    /\ call.result.tx # call.t.tx
    /\ call.result.tx # OtherRules.tx
    /\ call.result.probability # call.t.probability


\* the fields of the result that are those of the input
Kept(fields) == \A f \in fields : call.result[f] = call.t[f]

\* every channel of the colour lies in [0, 255]
ColourInRange ==
    \A j \in 1..3 : ~fLess(call.result.color[j], fZero)
                    /\ ~fLess(fromInt(255), call.result.color[j])

\* colorMutation, dispatched with strength * 400, changes the colour only,
\* and to channels in [0, 255]
ColorOnly ==
    (call.op = "mutateTransform" /\ call.type = "color") =>
        Kept({"m", "tx", "ty", "tz", "probability"}) /\ ColourInRange

\* C28, as stated: translationMutation keeps the matrix, the probability and
\* the colour and moves tx, ty and tz by strength at most each; colorMutation
\* keeps the matrix, the translation and the probability and returns colour
\* channels in [0, 255]
C28_OnlyTarget ==
    /\ (call.op = "mutateTransform" /\ call.type = "translation") =>
          /\ Kept({"m", "probability", "color"})
          /\ \A f \in {"tx", "ty", "tz"} :
                ~fLess(call.strength, fAbs(fSub(call.result[f], call.t[f])))
    /\ ColorOnly

\* C28: translationMutation keeps the matrix, the probability and the colour
\* and returns tx, ty and tz between the doubles t - strength and
\* t + strength; colorMutation keeps the matrix, the translation and the
\* probability and returns colour channels in [0, 255]
C28_OnlyTargetRounded ==
    /\ (call.op = "mutateTransform" /\ call.type = "translation") =>
          /\ Kept({"m", "probability", "color"})
          /\ \A f \in {"tx", "ty", "tz"} :
                WithinReach(call.result[f], call.t[f], call.strength)
    /\ ColorOnly

\* a translation mutation that moved tx by more than strength, the sum
\* t.tx - strength having been rounded away from t.tx
C28_Witness ==
    /\ call.op = "mutateTransform" /\ call.type = "translation"
    /\ fLess(call.strength, fAbs(fSub(call.result.tx, call.t.tx)))

\* a colour mutation that met both ends of the range
C28_ColourWitness ==
    /\ call.op = "mutateTransform" /\ call.type = "color"
    /\ fZero \in {call.result.color[j] : j \in 1..3}
    /\ fromInt(255) \in {call.result.color[j] : j \in 1..3}
    /\ call.result.color # call.t.color

(***************************************************************************)
(* The children of evolveGeneration3D on the values of their matrices.     *)
(* A call makes one genome of the new population as evolveGeneration3D     *)
(* makes it: an elite, an injected genome or a child of the breeding loop. *)
(* The parents are any genomes of the population; the mutation types are   *)
(* the two that leave the matrix to enforceContractivity as it was; the    *)
(* crossover is the single-point one.  Math.cos and Math.sin of a random   *)
(* angle are not computed: the pair is any of Turns.                       *)
(***************************************************************************)
\* <<Math.cos(angle), Math.sin(angle)>> of some angles, in tenths
Turns == {<<10, 0>>, <<0, 10>>, <<-10, 0>>, <<0, -10>>, <<6, 8>>, <<-8, 6>>}

\* the matrix of the cosines and sines of the three angles
RotationMatrixOf(cx, sx, cy, sy, cz, sz, scale) ==
    <<fMul(fMul(scale, cy), cz),
      fMul(scale, fSub(fMul(fMul(sx, sy), cz), fMul(cx, sz))),
      fMul(scale, fAdd(fMul(fMul(cx, sy), cz), fMul(sx, sz))),
      fMul(fMul(scale, cy), sz),
      fMul(scale, fAdd(fMul(fMul(sx, sy), sz), fMul(cx, cz))),
      fMul(scale, fSub(fMul(fMul(cx, sy), sz), fMul(sx, cz))),
      fMul(scale, fNeg(sy)),
      fMul(fMul(scale, sx), cy),
      fMul(fMul(scale, cx), cy)>>

\* [scale * cy * cz, scale * (sx * sy * cz - cx * sz), ...], each angle
\* being its <<cos, sin>>
createRotationMatrix(x, y, z, scale) ==
    RotationMatrixOf(fTenths(x[1]), fTenths(x[2]), fTenths(y[1]), fTenths(y[2]),
                     fTenths(z[1]), fTenths(z[2]), scale)

\* createRandomTransform() of evolution3d.ts: the matrix of the eleven draws
\* from pos on, the first being the scale
createRandomTransformValues(stream, pos, turn) ==
    [m |-> createRotationMatrix(turn[1], turn[2], turn[3],
                                randomRangeValue(DrawOf(stream, pos),
                                                 fLiteral(2, 10), fLiteral(6, 10)))]

\* seededRandom() as a double: the 32 bits of the draw over 2^32
SeededValue(draw) ==
    fAdd(fMul(fromInt(draw.value.hi), fPow2(-16)), fMul(fromInt(draw.value.lo), fPow2(-32)))

\* randomRange(min, max) of genome3d.ts: seededRandom() * (max - min) + min
seededRangeValue(draw, min, max) == fAdd(fMul(SeededValue(draw), fSub(max, min)), min)

\* m[1] += shear; m[3] += shear
Sheared(m, shear) ==
    [i \in 1..9 |-> IF i \in {2, 4} THEN fAdd(m[i], shear) ELSE m[i]]

\* createRandomTransform3D(): twelve draws, the first the scale and the
\* fifth the shear; the matrix and the currentSeed after
createRandomTransform3DValues(currentSeed, turn) ==
    LET scale == seededRandom(currentSeed)
        shear == seededRandom(DiscardDraws(scale.currentSeed, 3))
    IN  [t |-> [m |-> Sheared(createRotationMatrix(
                                  turn[1], turn[2], turn[3],
                                  seededRangeValue(scale, fLiteral(2, 10), fLiteral(6, 10))),
                              seededRangeValue(shear, fNeg(fLiteral(2, 10)), fLiteral(2, 10)))],
         currentSeed |-> DiscardDraws(shear.currentSeed, 7)]

RECURSIVE PushRandomTransformValues(_, _, _, _)
\* the transform r.t pushed, n more to push from r.currentSeed on
PushedRandomTransform(transforms, r, turn, n) ==
    PushRandomTransformValues(Append(transforms, r.t), r.currentSeed, turn, n)

\* for (let i = 0; i < numTransforms; i++) transforms.push(createRandomTransform3D())
PushRandomTransformValues(transforms, currentSeed, turn, n) ==
    IF n = 0 THEN [transforms |-> transforms, currentSeed |-> currentSeed]
    ELSE PushedRandomTransform(transforms, createRandomTransform3DValues(currentSeed, turn),
                               turn, n - 1)

\* createRandomGenome3D(generation): Math.floor(randomRange(3, 7)) transforms
createRandomGenome3DValues(currentSeed, turn) ==
    LET draw == seededRandom(currentSeed)
    IN  PushRandomTransformValues(<<>>, draw.currentSeed, turn,
                                  randomRange(draw.value, 3000, 7000) \div 1000)

RECURSIVE MutatedValues(_, _, _, _, _, _)
\* the result r of one callback kept, the rest mapped from the draw at r.pos on
MutatedAfter(done, r, rest, type, strength, stream) ==
    MutatedValues(Append(done, r), rest, type, strength, stream, r.pos)

\* genome.transforms.map(t => mutateTransform(t, type, strength))
MutatedValues(done, transforms, type, strength, stream, pos) ==
    IF transforms = <<>> THEN [transforms |-> done, pos |-> pos]
    ELSE MutatedAfter(done,
                      mutateTransformValues(Head(transforms), type, strength, stream, pos),
                      Tail(transforms), type, strength, stream)

\* the transforms as they are, whatever the configuration
EnforcedNever(transforms, config) == transforms

\* if (config.enforceContractivity) transforms = transforms.map(t =>
\* ({ ...t, m: enforceContractivity(t.m, 0.85) }))
EnforcedIfEnabled(transforms, config) ==
    IF config.enforceContractivity THEN EnforcedTransforms(transforms) ELSE transforms

\* the structural mutation of mutateGenome from the draw at pos on
StructurallyMutatedValues(transforms, config, stream, pos, turn) ==
    IF ~config.allowStructuralMutation THEN [transforms |-> transforms, pos |-> pos]
    ELSE IF DrawOf(stream, pos) < config.structuralMutationRate /\ Len(transforms) > 2
    THEN [transforms |->
              LET idx == (DrawOf(stream, pos + 1) * Len(transforms)) \div 100
              IN  SubSeq(transforms, 1, idx) \o SubSeq(transforms, idx + 2, Len(transforms)),
          pos |-> pos + 2]
    ELSE IF DrawOf(stream, pos + 1) < config.structuralMutationRate /\ Len(transforms) < 8
    THEN [transforms |-> Append(transforms, createRandomTransformValues(stream, pos + 2, turn)),
          pos |-> pos + 13]
    ELSE [transforms |-> transforms, pos |-> pos + 2]

\* the transforms mapped are enforced, then structurally mutated from the
\* draw at mutated.pos on
StructurallyMutatedAfter(mutated, config, stream, turn) ==
    StructurallyMutatedValues(EnforcedIfEnabled(mutated.transforms, config),
                              config, stream, mutated.pos, turn)

\* mutateGenome(genome, config): the transforms of the genome returned
mutateGenomeValues(transforms, config, stream, pos, turn) ==
    StructurallyMutatedAfter(MutatedValues(<<>>, transforms, config.mutationType,
                                           config.mutationStrength, stream, pos),
                             config, stream, turn)

\* { ...cfg, mutationStrength: cfg.mutationStrength * 0.3, structuralMutationRate: 0 }
EliteConfigValues(cfg) ==
    [cfg EXCEPT !.mutationStrength = fMul(@, fLiteral(3, 10)), !.structuralMutationRate = 0]

\* singlePointCrossover(a, b) on values: the copies keep the values
singlePointValues(a, b, stream, pos) ==
    LET crossPoint == (DrawOf(stream, pos) * Min(Len(a), Len(b))) \div 100
    IN  SubSeq(a, 1, crossPoint) \o SubSeq(b, crossPoint + 1, Len(b))

\* the child of a crossover, enforced: mutated if the draw at pos is below
\* mutationRate
CrossedChild(crossed, cfg, stream, pos, turn) ==
    IF DrawOf(stream, pos) < cfg.mutationRate
    THEN [route |-> "crossover-then-mutated",
          child |-> mutateGenomeValues(crossed, cfg, stream, pos + 1, turn)]
    ELSE [route |-> "crossover-only", child |-> [transforms |-> crossed, pos |-> pos + 1]]

\* one turn of the breeding loop after parent1 was selected, the draws of
\* the selection of parent2 being those of the n positions after the first
ChildValues(parent1, parent2, cfg, stream, pos, n, turn) ==
    IF DrawOf(stream, pos) < cfg.crossoverRate
    THEN CrossedChild(EnforcedIfEnabled(
                          singlePointValues(parent1, parent2, stream, pos + 1 + n), cfg),
                      cfg, stream, pos + 2 + n, turn)
    ELSE [route |-> "mutation-only",
          child |-> mutateGenomeValues(parent1, cfg, stream, pos + 1, turn)]

\* the draws one selectParent makes: tournamentSize of them, or one
SelectDraws(cfg) == IF cfg.tournamentSize > 1 THEN cfg.tournamentSize ELSE 1

\* [a, b, 0, 0, c, 0, 0, b, a], in tenths
ChildMatrix(a, b, c) ==
    <<fTenths(a), fTenths(b), fZero, fZero, fTenths(c), fZero, fZero, fTenths(b), fTenths(a)>>

\* genomes of a population: matrices within 0.85 and beyond it
ChildParents ==
    {<<AffineTransform3D(ChildMatrix(0, 13, 0), 5, -3, 0, 10, <<2550, 1000, 0>>),
       AffineTransform3D(Diagonal(5), 0, 2, 9, 3, <<0, 640, 2550>>),
       AffineTransform3D(Stretch(14), -8, 1, 4, 7, <<1273, 2004, 185>>)>>,
     <<AffineTransform3D(ChildMatrix(0, 5, 13), -5, 0, 5, 10, <<0, 0, 2550>>),
       AffineTransform3D(Diagonal(9), 5, 5, -5, 5, <<2550, 2550, 0>>)>>,
     <<AffineTransform3D(Diagonal(3), 1, 1, 1, 10, <<100, 200, 300>>),
       AffineTransform3D(ChildMatrix(13, -7, 9), 0, 0, 0, 4, <<2550, 0, 0>>),
       AffineTransform3D(Stretch(-7), 3, 3, 3, 6, <<0, 2550, 0>>)>>}

\* the configurations: the default but for enforceContractivity, the type of
\* the mutation and the crossover
ChildConfigs ==
    {[populationSize |-> 16, mutationRate |-> 80, mutationStrength |-> fLiteral(12, 100),
      mutationType |-> type, crossoverRate |-> 60, crossoverType |-> "single-point",
      eliteCount |-> 2, randomInjection |-> 1, tournamentSize |-> 3,
      enforceContractivity |-> enforce, allowStructuralMutation |-> TRUE,
      structuralMutationRate |-> 8] :
        type \in {"translation", "color"}, enforce \in BOOLEAN}

\* the seed of a run and the rotations of its random transforms about x, y
\* and z
ChildSeeds ==
    {[seed |-> 3, turn |-> <<<<-10, 0>>, <<10, 0>>, <<0, 10>>>>],
     [seed |-> 42, turn |-> <<<<10, 0>>, <<10, 0>>, <<10, 0>>>>],
     [seed |-> 3, turn |-> <<<<6, 8>>, <<-8, 6>>, <<0, -10>>>>],
     [seed |-> 42, turn |-> <<<<0, 10>>, <<6, 8>>, <<-10, 0>>>>]}

\* draws that take the loop through a mutation with an append, a crossover
\* alone, and a crossover with a mutation that appends or removes
ChildStreams ==
    {<<10, 20, 30, 70, 0, 99, 45, 50, 5, 95, 25, 75, 60, 90, 3, 99, 50, 50, 50, 50,
       50, 50, 50, 50, 50, 50>>,
     <<15, 25, 35, 40, 1, 2, 3, 50, 85, 11, 12>>,
     <<5, 6, 7, 59, 9, 8, 7, 99, 79, 0, 50, 99, 1, 2, 3, 4, 5, 6, 7, 66, 30, 31>>,
     <<65, 61, 90, 45, 55, 41, 42, 99, 31, 21, 65, 85, 95, 44, 77, 66, 88>>}

\* the parents a call selects: the same genome twice, or two genomes
ChildPairs ==
    {pair \in ChildParents \X ChildParents :
        Len(pair[1]) = 3 /\ (pair[2] = pair[1] => pair[1][1].tx = fTenths(1))}

InitChildren ==
    /\ \E config \in ChildConfigs, pair \in ChildPairs, run \in ChildSeeds :
          /\ call = [op |-> "pending", config |-> config, parent1 |-> pair[1],
                     parent2 |-> pair[2], turn |-> run.turn]
          /\ genome3d = GenomeModule(0, setRandomSeed(run.seed))
    /\ mathRandom \in {[stream |-> stream, pos |-> 1] : stream \in ChildStreams}
    /\ evolution3d = 0 /\ clock = 0 /\ objects = 0
    /\ IdleHook

\* the call after a genome of the given transforms was pushed
ChildPushed(op, route, transforms) ==
    [op |-> op, route |-> route, config |-> call.config, parent1 |-> call.parent1,
     parent2 |-> call.parent2, turn |-> call.turn, from |-> mathRandom.pos,
     matrices |-> [i \in 1..Len(transforms) |-> transforms[i].m]]

\* Math.random() left at the position pos of its stream
ChildDrawn(pos) ==
    mathRandom' = [mathRandom EXCEPT !.pos = ((pos - 1) % Len(mathRandom.stream)) + 1]

\* the elite r pushed, the draws of its mutation made
ElitePushed(r) ==
    /\ call' = ChildPushed("elite", "elite", r.transforms)
    /\ ChildDrawn(r.pos)

\* newPopulation.push(elite), parent1 being a genome rated up among the first
\* eliteCount of the sorted population
CallEliteValues ==
    /\ call.op = "pending"
    /\ ElitePushed(mutateGenomeValues(call.parent1, EliteConfigValues(call.config),
                                      mathRandom.stream, mathRandom.pos, call.turn))
    /\ evolution3d' = evolution3d + 1
    /\ UNCHANGED <<genome3d, clock, objects, hookVars, evolveVars>>

\* the random genome r pushed, its id and its seeded draws taken
InjectPushed(r) ==
    /\ call' = ChildPushed("inject", "injected", r.transforms)
    /\ genome3d' = GenomeModule(genome3d.idCounter + 1, r.currentSeed)

\* newPopulation.push(createRandomGenome3D(generation))
CallInjectValues ==
    /\ call.op = "pending"
    /\ InjectPushed(createRandomGenome3DValues(genome3d.currentSeed, call.turn))
    /\ UNCHANGED <<evolution3d, clock, mathRandom, objects, hookVars, evolveVars>>

\* the child of the turn r pushed: one id for a crossover or a mutation alone,
\* two for a crossover that is mutated
BreedPushed(r) ==
    /\ call' = ChildPushed("breed", r.route, r.child.transforms)
    /\ ChildDrawn(r.child.pos)
    /\ evolution3d' = evolution3d + (IF r.route = "crossover-then-mutated" THEN 2 ELSE 1)

\* one turn of the breeding loop, parent1 and parent2 being the genomes that
\* selectParent returns
CallBreedValues ==
    /\ call.op = "pending"
    /\ BreedPushed(ChildValues(call.parent1, call.parent2, call.config, mathRandom.stream,
                               mathRandom.pos + SelectDraws(call.config),
                               SelectDraws(call.config), call.turn))
    /\ UNCHANGED <<genome3d, clock, objects, hookVars, evolveVars>>

NextChildren == CallEliteValues \/ CallInjectValues \/ CallBreedValues

SpecChildren == InitChildren /\ [][NextChildren]_vars

\* the approximations of the matrices of the genome a call pushed
ChildRadii == {spectralRadiusMatrix(call.matrices[i]) : i \in 1..Len(call.matrices)}

\* a call that pushed a genome under enforceContractivity
ChildEnforced == call.op # "pending" /\ call.config.enforceContractivity

LoopPopulations == {population \in ElitePopulations : population[1].rating = "unset"}

\* populationSize below, at and above the number of elites and injected
\* genomes
LoopConfigs ==
    {[populationSize |-> n, eliteCount |-> e, randomInjection |-> r] :
        n \in {1, 3, 5}, e \in {0, 2}, r \in {0, 2}}

InitLoop ==
    /\ state \in {[population |-> population] : population \in LoopPopulations}
    /\ hookConfig \in LoopConfigs
    /\ mathRandom \in {[stream |-> stream, pos |-> 1] : stream \in OpStreams}
    /\ clock = 0
    /\ genome3d = GenomeModule(0, LoadSeed(0))
    /\ evolution3d = 0
    /\ objects = 1000
    /\ fitnessTable = <<>> /\ selection = <<>>
    /\ call = [op |-> "load"]

\* the module state a step leaves
LoopEnv(env) ==
    /\ mathRandom' = [mathRandom EXCEPT !.pos = env.pos]
    /\ clock' = env.now
    /\ evolution3d' = env.idCounter
    /\ genome3d' = env.g
    /\ objects' = env.heap
    /\ UNCHANGED hookVars

\* evolveGeneration3D(population, config) up to its while loop: the elites
\* kept, then the random genomes
EnterLoop ==
    /\ call.op = "load"
    /\ Selecting(state.population, hookConfig, mathRandom.stream)
    /\ LET generation == MaxGeneration(state.population) + 1
           elites == KeepElites([newPopulation |-> <<>>, env |-> OpEnv],
                                Sorted(state.population, selection'.rank),
                                OpConfig, generation, 1)
           st == Inject(elites, generation, OpConfig.randomInjection)
       IN  /\ call' = [op |-> "while", config |-> OpConfig, generation |-> generation,
                       elites |-> Len(elites.newPopulation), turns |-> 0,
                       newPopulation |-> st.newPopulation]
           /\ LoopEnv(st.env)

\* newPopulation.length < cfg.populationSize
LoopCondition ==
    call.op = "while" /\ Len(call.newPopulation) < call.config.populationSize

\* while (newPopulation.length < cfg.populationSize) { ... }: one turn
BreedTurn ==
    /\ LoopCondition
    /\ LET st == BreedWith([newPopulation |-> call.newPopulation, env |-> OpEnv],
                           state.population, selection, call.config, call.generation,
                           selectParent(state.population, selection, call.config, OpEnv))
       IN  /\ call' = [call EXCEPT !.newPopulation = st.newPopulation, !.turns = @ + 1]
           /\ LoopEnv(st.env)
    /\ UNCHANGED evolveVars

\* return newPopulation
ReturnNewPopulation ==
    /\ call.op = "while" /\ ~LoopCondition
    /\ call' = [call EXCEPT !.op = "evolveGeneration3D"]
    /\ UNCHANGED <<moduleVars, hookVars, evolveVars>>

NextLoop == EnterLoop \/ BreedTurn \/ ReturnNewPopulation

\* WF_vars of each of the three steps
LoopFairness ==
    /\ []<>(call.op # "load") \/ []<><<EnterLoop>>_vars
    /\ []<>(~LoopCondition) \/ []<><<BreedTurn>>_vars
    /\ WF_vars(ReturnNewPopulation)

SpecLoop == InitLoop /\ [][NextLoop]_vars /\ LoopFairness

\* a turn of the loop leaves one genome more in the new population
TurnAppendsOne ==
    (call.op = "while" /\ call'.op = "while") =>
        Len(call'.newPopulation) = Len(call.newPopulation) + 1

\* the turns a call has left to make
TurnsLeft ==
    Max(0, call.config.populationSize - call.elites - call.config.randomInjection)
        - call.turns

\* C27: the breeding loop of evolveGeneration3D terminates: every turn
\* appends exactly one genome to the new population, and the call returns
\* after exactly populationSize - (elites produced) - randomInjection turns,
\* none if that number is not positive
C27_LoopTerminates ==
    /\ <>(call.op = "evolveGeneration3D")
    /\ [][TurnAppendsOne]_vars
    /\ [](call.op = "while" => TurnsLeft >= 0)
    /\ [](call.op = "evolveGeneration3D" => TurnsLeft = 0)

\* a call that returned after an elite, two random genomes and two turns
C27_Witness ==
    /\ call.op = "evolveGeneration3D"
    /\ call.elites = 1 /\ call.config.randomInjection = 2 /\ call.turns = 2

\* a call that returned without a turn, the elites and the random genomes
\* being more than populationSize
C27_NoTurnWitness ==
    /\ call.op = "evolveGeneration3D"
    /\ call.turns = 0 /\ Len(call.newPopulation) > call.config.populationSize

\* every genome of the population is of the generation the hook counts
GenerationsAgree ==
    \A i \in 1..Len(state.population) :
        state.population[i].generation = state.generation

\* no genome of the population is rated
NoneRated == \A i \in 1..Len(state.population) : state.population[i].rating = "unset"

\* C29: after any calls of select, reject, setComment, evolve and reset on a
\* newly made state the generation of the hook is the generation of every
\* genome of its population, and right after evolve or reset no genome is
\* rated and the comment is empty
C29_GenerationsAgree ==
    /\ GenerationsAgree
    /\ call.handler \in {"evolve", "reset"} => NoneRated /\ state.comment = ""

\* an evolve of a population with a genome rated up, which left an elite of
\* that genome in the population of generation 1
C29_Witness ==
    /\ call.handler = "evolve" /\ state.generation = 1
    /\ \E i \in 1..Len(call.inputs), j \in 1..Len(state.population) :
          /\ call.inputs[i].rating = "up"
          /\ state.population[j].parentIds = <<call.inputs[i].id>>

\* the rating a click asks for: up for select, down for reject
ClickRating == IF call'.handler = "select" THEN "up" ELSE "down"

\* the two genomes are the same but for the rating, the object being the
\* copy that holds it
SameButRating(g, h) ==
    [g EXCEPT !.rating = "unset", !.obj = 0] = [h EXCEPT !.rating = "unset", !.obj = 0]

\* a step of select or reject on the genome shown at the place clicked
ClickStep == call'.handler \in {"select", "reject"} /\ call'.calls = call.calls + 1

\* the genome clicked takes the rating asked for, or none if it had it, and
\* nothing else of the state changes
RatingToggled ==
    /\ Len(state'.population) = Len(state.population)
    /\ state'.population[call'.clicked].rating =
          IF state.population[call'.clicked].rating = ClickRating
          THEN "unset" ELSE ClickRating
    /\ \A j \in 1..Len(state.population) :
          /\ j # call'.clicked => state'.population[j].rating = state.population[j].rating
          /\ SameButRating(state'.population[j], state.population[j])
    /\ state'.generation = state.generation
    /\ state'.seed = state.seed

\* C30: select(id) and reject(id) toggle the rating of the genome of that id
\* (up, or down, unless it has that rating already, and then none) and leave
\* the rating of every other genome, all transforms, the order of the
\* population, the generation and the seed as they were
C30_RatingToggle == [][ClickStep => RatingToggled]_vars

====
